---- MODULE Spec2Model ----
(***************************************************************************)
(* A model of the incident-resolution backend (iira-backend):              *)
(*   - search_sop_by_query, the two-stage retrieval with feedback           *)
(*     re-ranking (app/services/search_sop.py);                             *)
(*   - ResolverAgent.run, the plan/execute loop (app/agents);               *)
(*   - the per-incident code of monitor_new_incidents (app/main.py), with   *)
(*     resolve_scripts (app/services/script_resolver.py).                   *)
(*                                                                         *)
(* One run of one of the three is modelled per behaviour; `mode` says      *)
(* which.  What the modelled code calls but does not contain (vector index, *)
(* feedback store, LLM, database, subprocess) is nondeterministic over the  *)
(* results the caller handles: a returned value or a raised exception.      *)
(* The same holds for the retrieval call of the two drivers: both pass one  *)
(* argument to search_sop_by_query(query, description, ...), a call that    *)
(* raises TypeError; the drivers are modelled with every result their code  *)
(* has a branch for (a list, an empty list, an exception).  Likewise the    *)
(* registry of ResolverAgent.run ranges over entries with and without a     *)
(* script_type, the key lines 96-103 test, although get_scripts_from_db     *)
(* builds entries without it; the monitor's registry is the one             *)
(* get_scripts_from_db builds.                                              *)
(*                                                                         *)
(* Further specifications apply one function to inputs drawn from bounded  *)
(* sets: SpecStage1 (Stage 1 of the search under two thresholds),          *)
(* SpecRerank (rerank_with_feedback), SpecKey (get_redis_key_for_incident), *)
(* SpecResolve (resolve_scripts on one step), SpecExec (a call of           *)
(* ExecutionAgent.run with execute_shell_script_tool, app/agents) and       *)
(* SpecRetry (one upstream call: call_ollama, or a Stage 1 call).           *)
(* Two specifications have concurrent clients: SpecRegistry (add_script    *)
(* and update_script on the scripts table, app/services/scripts.py) and    *)
(* SpecFeedback (feedback submissions, cache pre-population and re-ranking  *)
(* reads on one Feedback Summary, app/utils/redis_client.py).               *)
(* Four more follow one resource over many operations: SpecHistory         *)
(* (attempts writing incident_history, app/services/scripts.py),           *)
(* SpecIndex (script requests and the synchronization of the search        *)
(* index, app/services/embed_documents.py), SpecSettings (two callers of   *)
(* load_search_thresholds, app/services/settings_service.py) and           *)
(* SpecCycles (the monitor's polling cycles over the incidents table,      *)
(* app/main.py and app/services/incidents.py).                             *)
(*                                                                         *)
(* Scores are integers in units of 1e-5 (100000 = 1.0).                    *)
(***************************************************************************)
EXTENDS Integers, Sequences, FiniteSets, TLC

\* ---------------------------------------------------------------- bounds
MaxHits == 2        \* points returned by one vector-index query
MaxTopK == 2        \* top_k ranges over 0..MaxTopK

\* ------------------------------------------------------ program constants
ONE == 100000                         \* the score 1.0
DEFAULT_INITIAL_THRESHOLD == 55000    \* 0.55
DEFAULT_HYDE_THRESHOLD == 50000       \* 0.50
CONFIRMED_BOOST == 20000              \* 0.2
PENALTY == 0 - 15000                  \* -0.15
MIN_CONFIRM_THRESHOLD == 1

Null == "null"                        \* Python's None

\* ----------------------------------------------------- retrieval: inputs
PointIds == 1 .. MaxHits
\* raw cosine similarities the index may report (1e-5 units)
RawScores == {0 - 10000, 49996, 56000, 93000}
\* threshold pairs the settings table may hold (the first is the default)
ThresholdPairs ==
    { [initial |-> DEFAULT_INITIAL_THRESHOLD, hyde |-> DEFAULT_HYDE_THRESHOLD],
      [initial |-> 60000, hyde |-> 45000] }

Range(s) == { s[i] : i \in DOMAIN s }

\* what qdrant_client.search may return: at most MaxHits points with
\* distinct ids, ordered by non-increasing score
RawResults ==
    { r \in UNION { [1 .. n -> [id : PointIds, score : RawScores]] : n \in 0 .. MaxHits } :
        /\ \A i, j \in DOMAIN r : i < j => r[i].id # r[j].id /\ r[i].score >= r[j].score }

\* the counters one agent may have in a feedback hash (a counter missing from
\* the hash reads as 0): none, a margin of exactly MIN_CONFIRM_THRESHOLD, and a
\* larger margin either way
Counters ==
    { [correct |-> 0, incorrect |-> 0], [correct |-> 1, incorrect |-> 0],
      [correct |-> 2, incorrect |-> 0], [correct |-> 0, incorrect |-> 2] }
\* get_feedback_summary: None (or an empty hash), or the per-agent counters
ZeroCounters == [p \in PointIds |-> [correct |-> 0, incorrect |-> 0]]
Feedbacks ==
    { [present |-> FALSE, counts |-> ZeroCounters] }
    \cup { [present |-> TRUE, counts |-> c] : c \in [PointIds -> Counters] }

VARIABLES
    mode,          \* "search" | "agent" | "monitor"
    s_pc,          \* search_sop_by_query: "start" | "stage1" | "stage2" | "finish" | "done"
    s_in,          \* its arguments and the settings it reads
    s_final,       \* final_results
    s_stage,       \* stage_used
    s_hyde,        \* number of calls of generate_hypothetical_sop_for_hyde
    s_s2,          \* Stage 2: [state: "none" | "nodoc" | "raised" | "ranked", and of the
                   \* re-ranked candidates: count, and high = how many reach the
                   \* HyDE threshold]
    s_s1,          \* Stage 1: [state: "none" | "raised" | "ranked", and of the re-ranked
                   \* points, count: how many, high: how many at or above the threshold]
    s_ret          \* the returned list (meaningful once s_pc = "done")

svars == <<s_pc, s_in, s_final, s_stage, s_hyde, s_s1, s_s2, s_ret>>

VARIABLES
    scripts_db,    \* the scripts table
    available,     \* available_scripts: the registry snapshot the run uses
    plan,          \* [state: "none" | "empty" | "steps", steps]
    resolved,      \* the monitor's resolved_scripts
    trace,         \* execution_trace / executed_scripts
    idx,           \* position of the next plan step (1-based)
    context,       \* the "<name>_output" entries of accumulated_context: [name, step]
    failed,        \* the monitor's resolution_failed
    notfound,      \* the monitor's sop_not_found
    o_pc,          \* where the run is
    status,        \* returned status (agent) / incident status (monitor)
    caught,        \* an exception reached the run's top-level handler
    hist,          \* the incident_history row of the incident
    persist,       \* the last update_incident_history call: after which step
                   \* (0: the plan checkpoint) and whether it was committed
    log            \* calls of retrieval ("find", or "find_empty" when it returned
                   \* nothing), planning, extraction and execution so far, in
                   \* order, and a "persist" that raised; ok: the call returned
                   \* (for "execute": a script ran)

ovars == <<scripts_db, available, plan, resolved, trace, idx, context, failed,
           notfound, o_pc, status, caught, hist, persist, log>>

VARIABLES
    f_pc,          \* a call of a function on its own: "idle" | "ready" | "done"
    f_in,          \* its arguments
    f_out,         \* its result
    e_pc,          \* ExecutionAgent.run: "idle" | "ready" | "lookup" | "create" |
                   \* "chmod" | "run" | "finally" | "done" | "propagated"
    e_in,          \* tool_name, parameters, and the declared parameters of the
                   \* script's row
    e_tmp,         \* the temporary script file exists
    e_log,         \* the calls made so far, in order: [op, ok, argc]
    e_res,         \* the value being returned: [status, output], or <<>>
    e_left,        \* temporary script files left behind by earlier calls
    e_cmd          \* the arguments of the command run: [param, value] each

VARIABLES
    r_rows,        \* the committed rows of the scripts table: [id, name]
    r_next,        \* the id the table's sequence hands out next
    r_tx           \* per request: the call, where its transaction is, its outcome

VARIABLES
    b_store,       \* the Feedback Summary of one incident in Redis
    b_clock,       \* the time of the last write, counted in writes
    b_pg,          \* retrieval_feedback: 'Correct' rows per correct_agent_id
    b_sub,         \* per client: its feedback submission and where it is
    b_pop,         \* populate_cache_from_feedback: its state and items left
    b_ghost,       \* history: pre-populated items applied, summary expired
    b_read         \* what get_feedback_summary returned last

rvars == <<r_rows, r_next, r_tx>>
VARIABLES
    h_rows,        \* the rows of incident_history, in the order of their insertion
    h_at           \* the resolution attempt under way and its checkpoints so far

VARIABLES
    q_index        \* the collection available_scripts: its points, and how the
                   \* last script request ended

VARIABLES
    k_settings     \* app_settings, _settings_cache and the calls of
                   \* load_search_thresholds under way

VARIABLES
    m_loop         \* the incidents table and the monitor's place in its polling
                   \* loop: the batch it was given, the incident at hand

bvars == <<b_store, b_clock, b_pg, b_sub, b_pop, b_ghost, b_read>>
hvars == <<h_rows, h_at>>
qvars == <<q_index>>
kvars == <<k_settings>>
mvars == <<m_loop>>
wvars == <<hvars, qvars, kvars, mvars>>
yvars == <<rvars, bvars, wvars>>

fvars == <<f_pc, f_in, f_out>>
evars == <<e_pc, e_in, e_tmp, e_log, e_res, e_left, e_cmd>>
xvars == <<fvars, evars, yvars>>


\* ------------------------------------------------- retrieval: functions
Min(a, b) == IF a < b THEN a ELSE b
Max(a, b) == IF a > b THEN a ELSE b

\* round(x, 4) on a score in 1e-5 units: to the nearest multiple of 10,
\* ties to even
Round4(x) ==
    LET q == x \div 10
        r == x % 10
    IN  IF r < 5 THEN 10 * q
        ELSE IF r > 5 THEN 10 * (q + 1)
        ELSE IF q % 2 = 0 THEN 10 * q ELSE 10 * (q + 1)

\* a boost or penalty on any majority, without the confirmation margin
AdjustedScore_NoMargin(score, c) ==
    LET adj == IF c.correct > c.incorrect THEN score + CONFIRMED_BOOST
               ELSE IF c.incorrect > c.correct THEN score + PENALTY
               ELSE score
    IN  Round4(Max(0, Min(ONE, adj)))

AdjustedScore(score, c) ==
    LET adj == IF c.correct > c.incorrect + MIN_CONFIRM_THRESHOLD
                 THEN score + CONFIRMED_BOOST
               ELSE IF c.incorrect > c.correct + MIN_CONFIRM_THRESHOLD
                 THEN score + PENALTY
               ELSE score
    IN  Round4(Max(0, Min(ONE, adj)))

\* list.sort(key=score, reverse=True): stable, descending
RECURSIVE InsertDesc(_, _)
InsertDesc(sorted, x) ==
    IF sorted = <<>> THEN <<x>>
    ELSE IF Head(sorted).score >= x.score
         THEN <<Head(sorted)>> \o InsertDesc(Tail(sorted), x)
         ELSE <<x>> \o sorted

RECURSIVE SortDesc(_)
SortDesc(s) ==
    IF s = <<>> THEN <<>>
    ELSE InsertDesc(SortDesc(SubSeq(s, 1, Len(s) - 1)), s[Len(s)])

rerank_with_feedback(fb, results) ==
    IF results = <<>> THEN <<>>
    ELSE IF ~fb.present THEN results
    ELSE SortDesc([i \in DOMAIN results |->
                     [id |-> results[i].id,
                      score |-> AdjustedScore(results[i].score, fb.counts[results[i].id])]])

RECURSIVE SelectSeq2(_, _, _)
\* the loop "for result in reranked: if not apply_threshold or score >= t: append"
SelectSeq2(s, apply, t) ==
    IF s = <<>> THEN <<>>
    ELSE IF (~apply) \/ Head(s).score >= t
         THEN <<Head(s)>> \o SelectSeq2(Tail(s), apply, t)
         ELSE SelectSeq2(Tail(s), apply, t)

\* a filter that lets every candidate through
ThresholdFilter_Ungated(s, apply, t) == s

ThresholdFilter(s, apply, t) == SelectSeq2(s, apply, t)

\* a return statement without the slice
TopK_Unsliced(s, k) == s

\* final_results[:top_k] for top_k >= 0
TopK(s, k) == SubSeq(s, 1, Min(k, Len(s)))

\* a Stage 1 that hands back every re-ranked candidate when none passes
Stage1Results_KeepsAll(reranked, apply, t) ==
    LET processed == ThresholdFilter(reranked, apply, t)
    IN  IF processed # <<>> THEN processed ELSE reranked

\* lines 173-193: stage_1_processed when Stage 1 is sufficient, otherwise
\* nothing (final_results stays empty)
Stage1Results(reranked, apply, t) ==
    LET processed == ThresholdFilter(reranked, apply, t)
        found_high == \E i \in DOMAIN processed : processed[i].score >= t
        sufficient == processed # <<>> /\ ((~apply) \/ found_high)
    IN  IF sufficient THEN processed ELSE <<>>

\* ---------------------------------------------------- retrieval: actions
SearchInputs ==
    [apply_threshold : BOOLEAN,
     top_k : 0 .. MaxTopK,
     clients_ok : BOOLEAN,          \* 'embedder' and 'qdrant_client' in globals()
     text_empty : BOOLEAN,          \* f"{query} {description}".strip() == ""
     thresholds : ThresholdPairs]   \* load_search_thresholds()

IdleSearchInput ==
    [apply_threshold |-> TRUE, top_k |-> 0, clients_ok |-> FALSE, text_empty |-> TRUE,
     thresholds |-> [initial |-> DEFAULT_INITIAL_THRESHOLD, hyde |-> DEFAULT_HYDE_THRESHOLD]]

SearchInit ==
    /\ s_pc = "start"
    /\ s_in \in SearchInputs
    /\ s_final = <<>>
    /\ s_stage = "Unknown"
    /\ s_hyde = 0
    /\ s_s1 = [state |-> "none", count |-> 0, high |-> 0]
    /\ s_s2 = [state |-> "none", count |-> 0, high |-> 0]
    /\ s_ret = <<>>

SearchIdle ==
    /\ s_pc = "idle"
    /\ s_in = IdleSearchInput
    /\ s_final = <<>>
    /\ s_stage = "Unknown"
    /\ s_hyde = 0
    /\ s_s1 = [state |-> "none", count |-> 0, high |-> 0]
    /\ s_s2 = [state |-> "none", count |-> 0, high |-> 0]
    /\ s_ret = <<>>

\* lines 138-157: the two early returns
SearchStart ==
    /\ mode = "search" /\ s_pc = "start"
    /\ IF (~s_in.clients_ok) \/ s_in.text_empty
         THEN s_pc' = "done" /\ s_ret' = <<>>
         ELSE s_pc' = "stage1" /\ s_ret' = s_ret
    /\ UNCHANGED <<mode, xvars, ovars, s_in, s_final, s_stage, s_hyde, s_s1, s_s2>>

\* lines 159-197, the index query returned
Stage1Returns ==
    /\ mode = "search" /\ s_pc = "stage1"
    /\ \E raw \in RawResults, fb \in Feedbacks :
         LET reranked == rerank_with_feedback(fb, raw)
             processed == Stage1Results(reranked, s_in.apply_threshold,
                                        s_in.thresholds.initial)
             sufficient == processed # <<>>
         IN  /\ s_s1' = [state |-> "ranked", count |-> Len(reranked),
                         high |-> Cardinality({ i \in DOMAIN reranked :
                                     reranked[i].score >= s_in.thresholds.initial })]
             /\ s_final' = IF sufficient THEN processed ELSE s_final
             /\ s_stage' = IF sufficient THEN "Direct" ELSE s_stage
             /\ s_pc' = IF sufficient THEN "finish" ELSE "stage2"
    /\ UNCHANGED <<mode, xvars, ovars, s_in, s_hyde, s_s2, s_ret>>

\* a Stage 1 failure that returns [] at once instead of falling through
Stage1Raises_Returns ==
    /\ mode = "search" /\ s_pc = "stage1"
    /\ s_s1' = [state |-> "raised", count |-> 0, high |-> 0]
    /\ s_ret' = <<>>
    /\ s_pc' = "done"
    /\ UNCHANGED <<mode, xvars, ovars, s_in, s_final, s_stage, s_hyde, s_s2>>

\* lines 159-197, embedding or the index query raised: logged, fall through
Stage1Raises ==
    /\ mode = "search" /\ s_pc = "stage1"
    /\ s_s1' = [state |-> "raised", count |-> 0, high |-> 0]
    /\ s_pc' = "stage2"
    /\ UNCHANGED <<mode, xvars, ovars, s_in, s_final, s_stage, s_hyde, s_s2, s_ret>>

\* lines 200-242, the hypothetical document and the index query came back
Stage2Returns ==
    /\ mode = "search" /\ s_pc = "stage2"
    /\ s_hyde' = s_hyde + 1
    /\ s_stage' = "HyDE"
    /\ \E raw \in RawResults, fb \in Feedbacks :
         LET reranked == rerank_with_feedback(fb, raw)
         IN  /\ s_final' = ThresholdFilter(reranked, s_in.apply_threshold,
                                           s_in.thresholds.hyde)
             /\ s_s2' = [state |-> "ranked", count |-> Len(reranked),
                         high |-> Cardinality({ i \in DOMAIN reranked :
                                     reranked[i].score >= s_in.thresholds.hyde })]
    /\ s_pc' = "finish"
    /\ UNCHANGED <<mode, xvars, ovars, s_in, s_s1, s_ret>>

\* a Stage 2 failure that leaves the call by the exception
Stage2Fails_Raises ==
    /\ mode = "search" /\ s_pc = "stage2"
    /\ s_hyde' = s_hyde + 1
    /\ s_stage' = "HyDE"
    /\ \E kind \in {"nodoc", "raised"} :
         s_s2' = [state |-> kind, count |-> 0, high |-> 0]
    /\ s_pc' = "raised"
    /\ UNCHANGED <<mode, xvars, ovars, s_in, s_final, s_s1, s_ret>>

\* lines 204-207 and 240-242: the generated document is empty ("nodoc"), or
\* generation, embedding, the index query or re-ranking raised: return []
Stage2Fails ==
    /\ mode = "search" /\ s_pc = "stage2"
    /\ s_hyde' = s_hyde + 1
    /\ s_stage' = "HyDE"
    /\ \E kind \in {"nodoc", "raised"} :
         s_s2' = [state |-> kind, count |-> 0, high |-> 0]
    /\ s_ret' = <<>>
    /\ s_pc' = "done"
    /\ UNCHANGED <<mode, xvars, ovars, s_in, s_final, s_s1>>

\* lines 244-250
SearchReturn ==
    /\ mode = "search" /\ s_pc = "finish"
    /\ s_ret' = TopK(s_final, s_in.top_k)
    /\ s_pc' = "done"
    /\ UNCHANGED <<mode, xvars, ovars, s_in, s_final, s_stage, s_hyde, s_s1, s_s2>>

SearchNext ==
    \/ SearchStart
    \/ Stage1Returns
    \/ Stage1Raises
    \/ Stage2Returns
    \/ Stage2Fails
    \/ SearchReturn


\* ====================================================== orchestration: data
MaxSteps == 2       \* steps of a generated plan
MaxParams == 1      \* declared parameters of a script
MaxScripts == 3     \* scripts of a registry handed to resolve_scripts
MaxLeft == 1        \* temporary files a sequence of executions may leave behind
MaxClients == 2     \* requests in flight at the same time
MaxRows == 3        \* ids the scripts table hands out
MaxText == 2        \* incident descriptions have at most MaxText characters
MaxAttempts == 3    \* resolution attempts that write to incident_history
MaxIncidents == 2   \* rows of the incidents table
MaxRuns == 2        \* attempts with a script executed that are counted per incident

\* names are sequences of character codes; a code above 100 is the upper-case
\* letter of code - 100
N1 == <<1, 2, 3, 4>>
Ghost == <<7, 8>>                     \* never the name of a registered script
NoTool == <<>>                        \* step.get("tool") is None or ""
NoName == <<>>                        \* script_name None

\* the ExecutionAgent's tool belt (execution_agent.py:15-18)
ToolBelt == {"shell_script"}
\* script_type of a registry entry: missing, a tool of the belt, or another
ScriptTypes == {Null, "shell_script", "python_script"}

\* a declared parameter; default_value None (Null) or a string
ParamSpecs == [required : BOOLEAN, default_value : {Null, "d"}]
ParamLists == UNION { [1 .. n -> ParamSpecs] : n \in 0 .. MaxParams }

\* the names of the scripts table, by row id
ScriptNames == <<N1>>
ScriptUniverse ==
    { [id |-> i, name |-> ScriptNames[i], script_type |-> t, params |-> ps] :
         i \in DOMAIN ScriptNames, t \in ScriptTypes, ps \in ParamLists }

\* registries: rows in id order, names unique
Registries ==
    { r \in UNION { [1 .. n -> ScriptUniverse] : n \in 0 .. Len(ScriptNames) } :
        \A i, j \in DOMAIN r : i < j => r[i].id < r[j].id }

\* the tool of a plan step: none, the name of a script, or another name
PlanTools == {NoTool, Ghost} \cup Range(ScriptNames)
\* the steps of a plan: each step is its tool name (its description is its
\* position in the plan)
Plans == UNION { [1 .. n -> PlanTools] : n \in 0 .. MaxSteps }

\* a value of the dictionary returned by the parameter extractor, per declared
\* parameter: key absent, null, or a non-empty value
ParamVals == {"absent", Null, "v"}

NoPlan == [state |-> "none", steps |-> <<>>]
NoHist == [row |-> FALSE, plan |-> NoPlan, null_trace |-> TRUE, trace |-> <<>>]

\* next(s for s in available_scripts if s['name'] == name), as a sequence of
\* zero or one script
RECURSIVE FindScript(_, _)
FindScript(scripts, name) ==
    IF scripts = <<>> THEN <<>>
    ELSE IF Head(scripts).name = name THEN <<Head(scripts)>>
    ELSE FindScript(Tail(scripts), name)

\* "not parameters.get(name)": the key is absent or its value is null
Falsy(v) == v \in {"absent", Null}

\* a check that only looks for the key, so that a null value passes
MissingParams_KeyOnly(params, extracted) ==
    { k \in DOMAIN params :
        /\ params[k].required
        /\ extracted[k] = "absent"
        /\ params[k].default_value = Null }

\* the missing_params list (as a set of parameter positions)
MissingParams(params, extracted) ==
    { k \in DOMAIN params :
        /\ params[k].required
        /\ Falsy(extracted[k])
        /\ params[k].default_value = Null }

\* a step record of the trace
\* a trace item numbered by the 0-based loop index
Record_ZeroBased(i, script, action, st, output, extracted) ==
    [step |-> i - 1, script |-> script, action |-> action, status |-> st,
     output |-> output, params |-> extracted]

Record(i, script, action, st, output, extracted) ==
    [step |-> i, script |-> script, action |-> action, status |-> st,
     output |-> output, params |-> extracted]

\* _transform_trace_for_frontend: one frontend item per trace item
FrontendItem(scripts, rec) ==
    LET name == IF rec.action = "execute" THEN rec.script ELSE NoName
        found == FindScript(scripts, name)
    IN  [step_description |-> rec.step,
         script_name |-> name,
         script_id |-> IF found = <<>> THEN 0 ELSE found[1].id,
         parameters |-> IF found = <<>> THEN <<>> ELSE found[1].params,
         extracted_parameters |-> rec.params,
         status |-> rec.status,
         output |-> rec.output]

TransformTrace(scripts, t) == [k \in DOMAIN t |-> FrontendItem(scripts, t[k])]

\* an update that writes the plan column only
UpdateHistory_KeepsTrace(h, ok, p, t) ==
    IF ok /\ h.row
      THEN [row |-> TRUE, plan |-> p, null_trace |-> h.null_trace, trace |-> h.trace]
      ELSE h

\* update_incident_history: UPDATE ... WHERE incident_number = ...; a database
\* error is printed and swallowed
UpdateHistory(h, ok, p, t) ==
    IF ok /\ h.row
      THEN [row |-> TRUE, plan |-> p, null_trace |-> FALSE, trace |-> t]
      ELSE h

\* what a call of update_incident_history or add_incident_history_to_db does:
\* the statement commits; an error is caught and printed (lines 318-320); or
\* the rollback or close of that handler raises in its turn
PersistOutcomes == {"committed", "failed", "raised"}

NoPersist == [calls |-> 0, step |-> 0, ok |-> FALSE]
Persisted(i, ok) == [calls |-> Min(persist.calls + 1, 1), step |-> i, ok |-> ok]

Logged(op, i, ok) == [op |-> op, step |-> i, ok |-> ok]

\* an assignment that keeps the entries the context already has
SetOutput_Adds(ctx, name, i) == ctx \cup {[name |-> name, step |-> i]}

\* accumulated_context[f"{script_name}_output"] = output of step i: the entry
\* of that key is set, one it had before is replaced
SetOutput(ctx, name, i) ==
    {e \in ctx : e.name # name} \cup {[name |-> name, step |-> i]}

\* ============================================== ResolverAgent.run: actions
AgentInit ==
    /\ scripts_db \in Registries
    /\ available = scripts_db            \* __init__: get_scripts_from_db()
    /\ plan = NoPlan
    /\ resolved = <<>>
    /\ trace = <<>>
    /\ idx = 1
    /\ context = {}
    /\ failed = FALSE
    /\ notfound = FALSE
    /\ o_pc = "retrieve"
    /\ status = "none"
    /\ caught = FALSE
    /\ hist \in { NoHist, [NoHist EXCEPT !.row = TRUE] }
    /\ persist = NoPersist
    /\ log = <<>>

\* an except clause that returns without setting the status
AgentCatch_KeepsStatus ==
    /\ o_pc' = "done"
    /\ status' = status
    /\ caught' = TRUE

\* the except clause of run (lines 148-151)
AgentCatch ==
    /\ o_pc' = "done"
    /\ status' = "Error"
    /\ caught' = TRUE

\* a return inside the try block
AgentReturn(st) ==
    /\ o_pc' = "done"
    /\ status' = st
    /\ caught' = caught

\* lines 56-61: find_sop_tool returned no procedure
AgentNoSop ==
    /\ mode = "agent" /\ o_pc = "retrieve"
    /\ log' = Append(log, Logged("find_empty", 0, TRUE))
    /\ AgentReturn("SOP not found")
    /\ UNCHANGED <<mode, xvars, svars, scripts_db, available, plan, resolved, trace, idx,
                   context, failed, notfound, hist, persist>>

\* lines 56-63: find_sop_tool returned procedures
AgentSopFound ==
    /\ mode = "agent" /\ o_pc = "retrieve"
    /\ log' = Append(log, Logged("find", 0, TRUE))
    /\ o_pc' = "plan"
    /\ UNCHANGED <<mode, xvars, svars, scripts_db, available, plan, resolved, trace, idx,
                   context, failed, notfound, status, caught, hist, persist>>

\* lines 56-57: building the query or find_sop_tool raised
AgentSopRaises ==
    /\ mode = "agent" /\ o_pc = "retrieve"
    /\ log' = Append(log, Logged("find", 0, FALSE))
    /\ AgentCatch
    /\ UNCHANGED <<mode, xvars, svars, scripts_db, available, plan, resolved, trace, idx,
                   context, failed, notfound, hist, persist>>

\* lines 63-67: no plan, or a plan without steps
AgentPlanEmpty ==
    /\ mode = "agent" /\ o_pc = "plan"
    /\ log' = Append(log, Logged("plan", 0, TRUE))
    /\ plan' = [state |-> "empty", steps |-> <<>>]
    /\ AgentReturn("Error")
    /\ UNCHANGED <<mode, xvars, svars, scripts_db, available, resolved, trace, idx,
                   context, failed, notfound, hist, persist>>

\* line 63: generate_plan_tool raised
AgentPlanRaises ==
    /\ mode = "agent" /\ o_pc = "plan"
    /\ log' = Append(log, Logged("plan", 0, FALSE))
    /\ AgentCatch
    /\ UNCHANGED <<mode, xvars, svars, scripts_db, available, plan, resolved, trace, idx,
                   context, failed, notfound, hist, persist>>

\* a run that goes into its loop without the checkpoint of the plan
AgentPlanned_NoCheckpoint ==
    /\ mode = "agent" /\ o_pc = "plan"
    /\ \E p \in Plans \ {<<>>} :
         /\ plan' = [state |-> "steps", steps |-> p]
         /\ log' = Append(log, Logged("plan", 0, TRUE))
         /\ o_pc' = "loop"
    /\ UNCHANGED <<mode, xvars, svars, scripts_db, available, resolved, trace, idx,
                   context, failed, notfound, status, caught, hist, persist>>

\* lines 63-72: a plan with steps; checkpoint it with the empty trace
AgentPlanned ==
    /\ mode = "agent" /\ o_pc = "plan"
    /\ \E p \in Plans \ {<<>>}, res \in PersistOutcomes :
         /\ plan' = [state |-> "steps", steps |-> p]
         /\ hist' = UpdateHistory(hist, res = "committed", plan',
                                  TransformTrace(available, trace))
         /\ persist' = Persisted(0, res = "committed" /\ hist.row)
         /\ IF res = "raised"
              THEN /\ log' = log \o <<Logged("plan", 0, TRUE), Logged("persist", 0, FALSE)>>
                   /\ AgentCatch
              ELSE /\ log' = Append(log, Logged("plan", 0, TRUE))
                   /\ o_pc' = "loop"
                   /\ UNCHANGED <<status, caught>>
    /\ UNCHANGED <<mode, xvars, svars, scripts_db, available, resolved, trace, idx,
                   context, failed, notfound>>


\* append a step record, then _transform_trace_for_frontend and
\* update_incident_history; Continue is what the run does after the update
\* (it sets o_pc, status, caught, idx and context), unless the update raised
AgentRecord(rec, calls, Continue) ==
    \E res \in PersistOutcomes :
      /\ trace' = Append(trace, rec)
      /\ hist' = UpdateHistory(hist, res = "committed", plan,
                               TransformTrace(available, trace'))
      /\ persist' = Persisted(idx, res = "committed" /\ hist.row)
      /\ IF res = "raised"
           THEN /\ log' = (log \o calls) \o <<Logged("persist", idx, FALSE)>>
                /\ AgentCatch
                /\ UNCHANGED <<idx, context>>
           ELSE /\ log' = log \o calls
                /\ Continue

\* return from inside the loop
AgentHalt(st) == AgentReturn(st) /\ UNCHANGED <<idx, context>>

\* on to the next step of the plan
AgentContinue == idx' = idx + 1 /\ UNCHANGED <<o_pc, status, caught, context>>

AgentAtStep ==
    /\ mode = "agent" /\ o_pc = "loop"
    /\ idx <= Len(plan.steps)

\* a manual step that ends the run like a failed lookup does
AgentStepManual_Halts ==
    /\ AgentAtStep
    /\ plan.steps[idx] = NoTool
    /\ AgentRecord(Record(idx, NoName, "manual", "skipped", "none", <<>>), <<>>,
                   AgentHalt("Error"))
    /\ UNCHANGED <<mode, xvars, svars, scripts_db, available, plan, resolved, failed, notfound>>

\* lines 78-82: a step without a tool
AgentStepManual ==
    /\ AgentAtStep
    /\ plan.steps[idx] = NoTool
    /\ AgentRecord(Record(idx, NoName, "manual", "skipped", "none", <<>>), <<>>,
                   AgentContinue)
    /\ UNCHANGED <<mode, xvars, svars, scripts_db, available, plan, resolved, failed, notfound>>

\* a failed lookup treated like a manual step
AgentStepNotFound_Skips ==
    /\ AgentAtStep
    /\ plan.steps[idx] # NoTool
    /\ FindScript(available, plan.steps[idx]) = <<>>
    /\ AgentRecord(Record(idx, plan.steps[idx], "execute", "skipped", "not_found", <<>>),
                   <<>>, AgentContinue)
    /\ UNCHANGED <<mode, xvars, svars, scripts_db, available, plan, resolved, failed, notfound>>

\* lines 85-93: the planned script is not among the available scripts
AgentStepNotFound ==
    /\ AgentAtStep
    /\ plan.steps[idx] # NoTool
    /\ FindScript(available, plan.steps[idx]) = <<>>
    /\ AgentRecord(Record(idx, plan.steps[idx], "execute", "error", "not_found", <<>>),
                   <<>>, AgentHalt("Error"))
    /\ UNCHANGED <<mode, xvars, svars, scripts_db, available, plan, resolved, failed, notfound>>

\* the script of the current step, when the lookup of line 85 finds one
AgentScript == FindScript(available, plan.steps[idx])[1]

AgentHasScript ==
    /\ AgentAtStep
    /\ plan.steps[idx] # NoTool
    /\ FindScript(available, plan.steps[idx]) # <<>>

\* lines 96-103: the script has no script_type
AgentStepNoType ==
    /\ AgentHasScript
    /\ AgentScript.script_type = Null
    /\ AgentRecord(Record(idx, plan.steps[idx], "execute", "error", "no_type", <<>>),
                   <<>>, AgentHalt("Error"))
    /\ UNCHANGED <<mode, xvars, svars, scripts_db, available, plan, resolved, failed, notfound>>

\* line 108: extract_parameters_tool raised
AgentExtractRaises ==
    /\ AgentHasScript
    /\ AgentScript.script_type # Null
    /\ AgentScript.params # <<>>
    /\ log' = Append(log, Logged("extract", idx, FALSE))
    /\ AgentCatch
    /\ UNCHANGED <<mode, xvars, svars, scripts_db, available, plan, resolved, trace, idx,
                   context, failed, notfound, hist, persist>>

\* lines 106-117: a required parameter without default was not extracted
AgentStepMissing ==
    /\ AgentHasScript
    /\ AgentScript.script_type # Null
    /\ AgentScript.params # <<>>
    /\ \E extracted \in [DOMAIN AgentScript.params -> ParamVals] :
         /\ MissingParams(AgentScript.params, extracted) # {}
         /\ AgentRecord(Record(idx, plan.steps[idx], "execute", "error",
                               "missing_params", extracted),
                        <<Logged("extract", idx, TRUE)>>, AgentHalt("Error"))
    /\ UNCHANGED <<mode, xvars, svars, scripts_db, available, plan, resolved, failed, notfound>>

\* ExecutionAgent.run: an unknown tool is an error and runs nothing; otherwise
\* the result of the tool function, an exception of which is an error result
ExecutionResults(tool_name) ==
    IF tool_name \notin ToolBelt
      THEN { [status |-> "error", output |-> "tool_not_found", ran |-> FALSE] }
      ELSE { [status |-> "success", output |-> "stdout", ran |-> TRUE],
             [status |-> "error", output |-> "script_failed", ran |-> TRUE] }

\* lines 106-142: parameters (if any) extracted, the script dispatched
AgentStepExecute ==
    /\ AgentHasScript
    /\ AgentScript.script_type # Null
    /\ \E extracted \in [DOMAIN AgentScript.params -> ParamVals],
          res \in ExecutionResults(AgentScript.script_type) :
         /\ MissingParams(AgentScript.params, extracted) = {}
         /\ AgentRecord(Record(idx, plan.steps[idx], "execute", res.status,
                               res.output, extracted),
                        (IF AgentScript.params # <<>>
                           THEN <<Logged("extract", idx, TRUE)>> ELSE <<>>)
                        \o <<Logged("execute", idx, res.ran)>>,
                        IF res.status = "error"
                          THEN AgentHalt("Error")
                          ELSE /\ context' = SetOutput(context, plan.steps[idx], idx)
                               /\ idx' = idx + 1
                               /\ UNCHANGED <<o_pc, status, caught>>)
    /\ UNCHANGED <<mode, xvars, svars, scripts_db, available, plan, resolved, failed,
                   notfound>>

\* lines 144-146: the loop is over
AgentFinish ==
    /\ mode = "agent" /\ o_pc = "loop"
    /\ idx > Len(plan.steps)
    /\ AgentReturn("Resolved")
    /\ UNCHANGED <<mode, xvars, svars, scripts_db, available, plan, resolved, trace, idx,
                   context, failed, notfound, hist, persist, log>>


\* ================================================ resolve_scripts (fuzzy)
\* str.lower() on a name
Lower(name) == [k \in DOMAIN name |-> IF name[k] > 100 THEN name[k] - 100 ELSE name[k]]

\* "a in b" for strings: a is a contiguous part of b
IsSubstring(a, b) ==
    \E i \in 0 .. (Len(b) - Len(a)) : SubSeq(b, i + 1, i + Len(a)) = a

\* the blocks a[i .. i+k-1] = b[j .. j+k-1], k >= 1
CommonBlocks(a, b) ==
    { t \in (1 .. Len(a)) \X (1 .. Len(b)) \X (1 .. Min(Len(a), Len(b))) :
        /\ t[1] + t[3] - 1 <= Len(a)
        /\ t[2] + t[3] - 1 <= Len(b)
        /\ SubSeq(a, t[1], t[1] + t[3] - 1) = SubSeq(b, t[2], t[2] + t[3] - 1) }

\* SequenceMatcher.find_longest_match: the longest block, of those the one
\* starting earliest in a, of those the one starting earliest in b
LongestMatch(a, b) ==
    CHOOSE t \in CommonBlocks(a, b) :
      \A u \in CommonBlocks(a, b) :
        \/ u[3] < t[3]
        \/ u[3] = t[3] /\ t[1] < u[1]
        \/ u[3] = t[3] /\ t[1] = u[1] /\ t[2] <= u[2]

\* a count of the longest block alone
MatchCount_LongestOnly(a, b) ==
    IF CommonBlocks(a, b) = {} THEN 0 ELSE LongestMatch(a, b)[3]

\* the number of matched characters of get_matching_blocks
RECURSIVE MatchCount(_, _)
MatchCount(a, b) ==
    IF CommonBlocks(a, b) = {} THEN 0
    ELSE LET t == LongestMatch(a, b)
         IN  t[3] + MatchCount(SubSeq(a, 1, t[1] - 1), SubSeq(b, 1, t[2] - 1))
                  + MatchCount(SubSeq(a, t[1] + t[3], Len(a)),
                               SubSeq(b, t[2] + t[3], Len(b)))

\* the ratio alone, without the substring check
Similarity_RatioOnly(tool, script_name) ==
    LET a == Lower(tool)
        b == Lower(script_name)
    IN  IF Len(a) + Len(b) = 0 THEN [num |-> 1, den |-> 1]
        ELSE [num |-> 2 * MatchCount(a, b), den |-> Len(a) + Len(b)]

\* similarity_score of lines 54-65, as the fraction num/den:
\* SequenceMatcher.ratio() = 2*M/T, forced to 1.0 for a substring
Similarity(tool, script_name) ==
    LET a == Lower(tool)
        b == Lower(script_name)
    IN  IF IsSubstring(a, b) THEN [num |-> 1, den |-> 1]
        ELSE IF Len(a) + Len(b) = 0 THEN [num |-> 1, den |-> 1]
        ELSE [num |-> 2 * MatchCount(a, b), den |-> Len(a) + Len(b)]

\* a comparison that lets a later script with an equal score take over
ScoreGreater_OrEqual(x, y) == x.num * y.den >= y.num * x.den

ScoreGreater(x, y) == x.num * y.den > y.num * x.den

\* the loop of lines 47-69: [score, match] after the scripts seen so far
RECURSIVE BestMatch(_, _)
BestMatch(tool, scripts) ==
    IF scripts = <<>> THEN [score |-> [num |-> 0, den |-> 1], match |-> <<>>]
    ELSE LET prev == BestMatch(tool, SubSeq(scripts, 1, Len(scripts) - 1))
             cur == scripts[Len(scripts)]
             sc == Similarity(tool, cur.name)
         IN  IF ScoreGreater(sc, prev.score)
               THEN [score |-> sc, match |-> <<cur>>]
               ELSE prev

ACCEPT_NUM == 1                       \* the acceptance threshold 0.5 = 1/2
ACCEPT_DEN == 2

\* a resolver that binds the best match whatever its score
ResolvedStep_AlwaysBinds(i, tool, scripts) ==
    IF tool = NoTool
      THEN [step_description |-> i, script_name |-> NoName, script_id |-> 0,
            parameters |-> <<>>, extracted_parameters |-> <<>>,
            status |-> Null, output |-> Null]
    ELSE LET best == BestMatch(tool, scripts)
         IN  IF best.match # <<>>
               THEN [step_description |-> i, script_name |-> best.match[1].name,
                     script_id |-> best.match[1].id,
                     parameters |-> best.match[1].params,
                     extracted_parameters |-> <<>>, status |-> Null, output |-> Null]
               ELSE [step_description |-> i, script_name |-> NoName, script_id |-> 0 - 1,
                     parameters |-> <<>>, extracted_parameters |-> <<>>,
                     status |-> Null, output |-> Null]

\* one entry of the resolved workflow; script_id 0 is None, -1 is "Not Found";
\* status, output and extracted_parameters are keys the loop adds later (Null
\* and <<>>: the key is absent)
ResolvedStep(i, tool, scripts) ==
    IF tool = NoTool
      THEN [step_description |-> i, script_name |-> NoName, script_id |-> 0,
            parameters |-> <<>>, extracted_parameters |-> <<>>,
            status |-> Null, output |-> Null]
    ELSE LET best == BestMatch(tool, scripts)
         IN  IF best.score.num * ACCEPT_DEN >= ACCEPT_NUM * best.score.den
                /\ best.match # <<>>
               THEN [step_description |-> i, script_name |-> best.match[1].name,
                     script_id |-> best.match[1].id,
                     parameters |-> best.match[1].params,
                     extracted_parameters |-> <<>>, status |-> Null, output |-> Null]
               ELSE [step_description |-> i, script_name |-> NoName, script_id |-> 0 - 1,
                     parameters |-> <<>>, extracted_parameters |-> <<>>,
                     status |-> Null, output |-> Null]

resolve_scripts(steps, scripts) ==
    [i \in DOMAIN steps |-> ResolvedStep(i, steps[i], scripts)]

\* ================================= monitor_new_incidents: one incident
MonitorInit ==
    /\ scripts_db \in { r \in Registries : \A i \in DOMAIN r : r[i].script_type = Null }
    /\ available = <<>>
    /\ plan = NoPlan
    /\ resolved = <<>>
    /\ trace = <<>>
    /\ idx = 1
    /\ context = {}
    /\ failed = FALSE
    /\ notfound = FALSE
    /\ o_pc = "begin"
    /\ status = "New"
    /\ caught = FALSE
    /\ hist = NoHist
    /\ persist = NoPersist
    /\ log = <<>>

\* an except clause that only logs
MonitorCatch_NoFlag ==
    /\ failed' = failed
    /\ caught' = TRUE
    /\ o_pc' = "finally"

\* the except clause of lines 255-257, then on to the finally clause
MonitorCatch ==
    /\ failed' = TRUE
    /\ caught' = TRUE
    /\ o_pc' = "finally"

\* lines 166-170: mark the incident In Progress, insert its history row
MonitorBegin ==
    /\ mode = "monitor" /\ o_pc = "begin"
    /\ status' = "In Progress"
    /\ \E res \in PersistOutcomes :
         /\ hist' = IF res = "committed" THEN [NoHist EXCEPT !.row = TRUE] ELSE hist
         /\ IF res = "raised"
              THEN /\ log' = Append(log, Logged("persist", 0, FALSE))
                   /\ MonitorCatch
              ELSE /\ log' = log
                   /\ o_pc' = "retrieve"
                   /\ UNCHANGED <<failed, caught>>
    /\ UNCHANGED <<mode, xvars, svars, scripts_db, available, plan, resolved, trace, idx,
                   context, notfound, persist>>

\* line 167: update_incident_status raised
MonitorBeginRaises ==
    /\ mode = "monitor" /\ o_pc = "begin"
    /\ MonitorCatch
    /\ UNCHANGED <<mode, xvars, svars, scripts_db, available, plan, resolved, trace, idx,
                   context, notfound, status, hist, persist, log>>

\* lines 173-179: no procedure retrieved
MonitorNoSop ==
    /\ mode = "monitor" /\ o_pc = "retrieve"
    /\ log' = Append(log, Logged("find_empty", 0, TRUE))
    /\ failed' = TRUE
    /\ notfound' = TRUE
    /\ o_pc' = "finally"
    /\ UNCHANGED <<mode, xvars, svars, scripts_db, available, plan, resolved, trace, idx,
                   context, status, caught, hist, persist>>

\* line 173: procedures retrieved
MonitorSopFound ==
    /\ mode = "monitor" /\ o_pc = "retrieve"
    /\ log' = Append(log, Logged("find", 0, TRUE))
    /\ o_pc' = "plan"
    /\ UNCHANGED <<mode, xvars, svars, scripts_db, available, plan, resolved, trace, idx,
                   context, failed, notfound, status, caught, hist, persist>>

\* lines 172-173: building the query or the search raised
MonitorSopRaises ==
    /\ mode = "monitor" /\ o_pc = "retrieve"
    /\ log' = Append(log, Logged("find", 0, FALSE))
    /\ MonitorCatch
    /\ UNCHANGED <<mode, xvars, svars, scripts_db, available, plan, resolved, trace, idx,
                   context, notfound, status, hist, persist>>

\* an empty plan that is logged but does not set resolution_failed
MonitorPlanEmpty_NoFlag ==
    /\ mode = "monitor" /\ o_pc = "plan"
    /\ log' = Append(log, Logged("plan", 0, TRUE))
    /\ plan' = [state |-> "empty", steps |-> <<>>]
    /\ failed' = failed
    /\ o_pc' = "finally"
    /\ UNCHANGED <<mode, xvars, svars, scripts_db, available, resolved, trace, idx,
                   context, notfound, status, caught, hist, persist>>

\* lines 181-186: no plan, or a plan without steps
MonitorPlanEmpty ==
    /\ mode = "monitor" /\ o_pc = "plan"
    /\ log' = Append(log, Logged("plan", 0, TRUE))
    /\ plan' = [state |-> "empty", steps |-> <<>>]
    /\ failed' = TRUE
    /\ o_pc' = "finally"
    /\ UNCHANGED <<mode, xvars, svars, scripts_db, available, resolved, trace, idx,
                   context, notfound, status, caught, hist, persist>>

\* line 181: get_llm_plan raised
MonitorPlanRaises ==
    /\ mode = "monitor" /\ o_pc = "plan"
    /\ log' = Append(log, Logged("plan", 0, FALSE))
    /\ MonitorCatch
    /\ UNCHANGED <<mode, xvars, svars, scripts_db, available, plan, resolved, trace, idx,
                   context, notfound, status, hist, persist>>

\* lines 181-193: a plan with steps; checkpoint it, load the registry
\* (get_scripts_from_db returns [] on a database error, which is the empty
\* registry) and resolve the steps
MonitorPlanned ==
    /\ mode = "monitor" /\ o_pc = "plan"
    /\ \E p \in Plans \ {<<>>}, res \in PersistOutcomes :
         /\ plan' = [state |-> "steps", steps |-> p]
         /\ hist' = UpdateHistory(hist, res = "committed", plan', trace)
         /\ persist' = Persisted(0, res = "committed" /\ hist.row)
         /\ IF res = "raised"
              THEN /\ log' = log \o <<Logged("plan", 0, TRUE), Logged("persist", 0, FALSE)>>
                   /\ MonitorCatch
                   /\ UNCHANGED <<available, resolved>>
              ELSE /\ log' = Append(log, Logged("plan", 0, TRUE))
                   /\ available' = scripts_db
                   /\ resolved' = resolve_scripts(p, available')
                   /\ o_pc' = "loop"
                   /\ UNCHANGED <<failed, caught>>
    /\ UNCHANGED <<mode, xvars, svars, scripts_db, trace, idx, context, notfound, status>>


\* executed_scripts.append(resolved_script), then update_incident_history;
\* resolution_failed is what the step left in the flag
MonitorRecord(rec, calls, resolution_failed) ==
    \E res \in PersistOutcomes :
      /\ trace' = Append(trace, rec)
      /\ hist' = UpdateHistory(hist, res = "committed", plan, trace')
      /\ persist' = Persisted(idx, res = "committed" /\ hist.row)
      /\ IF res = "raised"
           THEN /\ log' = (log \o calls) \o <<Logged("persist", idx, FALSE)>>
                /\ MonitorCatch
                /\ idx' = idx
           ELSE /\ log' = log \o calls
                /\ failed' = resolution_failed
                /\ idx' = idx + 1
                /\ UNCHANGED <<o_pc, caught>>

MonitorAtStep ==
    /\ mode = "monitor" /\ o_pc = "loop"
    /\ idx <= Len(resolved)

\* lines 199-203: a step after a failure
MonitorStepSkipped ==
    /\ MonitorAtStep
    /\ failed
    /\ MonitorRecord([resolved[idx] EXCEPT !.status = "skipped"], <<>>, failed)
    /\ UNCHANGED <<mode, xvars, svars, scripts_db, available, plan, resolved, context,
                   notfound, status>>

\* lines 205, 250-253: a step no script was resolved for
MonitorStepManual ==
    /\ MonitorAtStep
    /\ ~failed
    /\ resolved[idx].script_name = NoName
    /\ MonitorRecord(resolved[idx], <<>>, failed)
    /\ UNCHANGED <<mode, xvars, svars, scripts_db, available, plan, resolved, context,
                   notfound, status>>

\* a loop that does not look at resolution_failed before handling a step
MonitorHasScript_IgnoresFailure ==
    /\ MonitorAtStep
    /\ resolved[idx].script_name # NoName

MonitorHasScript ==
    /\ MonitorAtStep
    /\ ~failed
    /\ resolved[idx].script_name # NoName

\* script_details of line 206 (resolve_scripts took the name from this list)
MonitorScript == FindScript(available, resolved[idx].script_name)[1]

\* line 210: extract_parameters_with_llm raised
MonitorExtractRaises ==
    /\ MonitorHasScript
    /\ MonitorScript.params # <<>>
    /\ log' = Append(log, Logged("extract", idx, FALSE))
    /\ MonitorCatch
    /\ UNCHANGED <<mode, xvars, svars, scripts_db, available, plan, resolved, trace, idx,
                   context, notfound, status, hist, persist>>

\* lines 209-231: a required parameter without default was not extracted
MonitorStepMissing ==
    /\ MonitorHasScript
    /\ MonitorScript.params # <<>>
    /\ \E extracted \in [DOMAIN MonitorScript.params -> ParamVals] :
         /\ MissingParams(MonitorScript.params, extracted) # {}
         /\ MonitorRecord([resolved[idx] EXCEPT !.status = "error",
                                                !.output = "missing_params",
                                                !.extracted_parameters = extracted],
                          <<Logged("extract", idx, TRUE)>>, TRUE)
    /\ UNCHANGED <<mode, xvars, svars, scripts_db, available, plan, resolved, context,
                   notfound, status>>

\* lines 231-253: execute_script returned a response
MonitorStepExecute ==
    /\ MonitorHasScript
    /\ \E extracted \in [DOMAIN MonitorScript.params -> ParamVals],
          st \in {"success", "error"} :
         /\ MissingParams(MonitorScript.params, extracted) = {}
         /\ MonitorRecord([resolved[idx] EXCEPT
                              !.status = st,
                              !.output = IF st = "error" THEN "script_failed"
                                         ELSE "stdout",
                              !.extracted_parameters = extracted],
                          (IF MonitorScript.params # <<>>
                             THEN <<Logged("extract", idx, TRUE)>> ELSE <<>>)
                          \o <<Logged("execute", idx, TRUE)>>,
                          st = "error")
         /\ context' = IF st = "error" THEN context
                       ELSE SetOutput(context, resolved[idx].script_name, idx)
    /\ UNCHANGED <<mode, xvars, svars, scripts_db, available, plan, resolved, notfound, status>>

\* line 238: execute_script raised (script or content not found, or an
\* exception while preparing or running the subprocess)
MonitorExecuteRaises ==
    /\ MonitorHasScript
    /\ \E extracted \in [DOMAIN MonitorScript.params -> ParamVals] :
         /\ MissingParams(MonitorScript.params, extracted) = {}
         /\ log' = log \o (IF MonitorScript.params # <<>>
                             THEN <<Logged("extract", idx, TRUE)>> ELSE <<>>)
                       \o <<Logged("execute", idx, FALSE)>>
    /\ MonitorCatch
    /\ UNCHANGED <<mode, xvars, svars, scripts_db, available, plan, resolved, trace, idx,
                   context, notfound, status, hist, persist>>

\* the for loop of line 195 is over
MonitorLoopEnd ==
    /\ mode = "monitor" /\ o_pc = "loop"
    /\ idx > Len(resolved)
    /\ o_pc' = "finally"
    /\ UNCHANGED <<mode, xvars, svars, scripts_db, available, plan, resolved, trace, idx,
                   context, failed, notfound, status, caught, hist, persist, log>>

\* a finally clause that tests resolution_failed first
FinalStatus_FailureFirst(sop_not_found, resolution_failed) ==
    IF resolution_failed THEN "Error"
    ELSE IF sop_not_found THEN "SOP not found"
    ELSE "Resolved"

\* the status the finally clause chooses (lines 263-268)
FinalStatus(sop_not_found, resolution_failed) ==
    IF sop_not_found THEN "SOP not found"
    ELSE IF resolution_failed THEN "Error"
    ELSE "Resolved"

\* lines 259-268: the last checkpoint, then the incident's final status;
\* an exception of either (update_incident_status raises on a database error)
\* leaves the per-incident code with the status unwritten
MonitorFinalize ==
    /\ mode = "monitor" /\ o_pc = "finally"
    /\ \E ok \in BOOLEAN, written \in BOOLEAN :
         /\ hist' = UpdateHistory(hist, ok, plan, trace)
         /\ persist' = Persisted(Len(trace), ok /\ hist.row)
         /\ log' = log
         /\ IF written
              THEN status' = FinalStatus(notfound, failed) /\ o_pc' = "done"
              ELSE status' = status /\ o_pc' = "aborted"
    /\ UNCHANGED <<mode, xvars, svars, scripts_db, available, plan, resolved, trace, idx,
                   context, failed, notfound, caught>>

\* main.py:158-163: the per-incident code starts afresh on an incident
MonitorFresh ==
    /\ scripts_db' \in { r \in Registries : \A i \in DOMAIN r : r[i].script_type = Null }
    /\ available' = <<>> /\ plan' = NoPlan /\ resolved' = <<>> /\ trace' = <<>>
    /\ idx' = 1 /\ context' = {} /\ failed' = FALSE /\ notfound' = FALSE
    /\ o_pc' = "begin" /\ status' = "New" /\ caught' = FALSE /\ hist' = NoHist
    /\ persist' = NoPersist /\ log' = <<>>

\* no incident is at hand: the monitor is at the head of its for loop
\* (main.py:158, at = "next") or in asyncio.sleep(60) (lines 271 and 275,
\* at = "sleeping")
MonitorBetween(at) ==
    /\ scripts_db' = <<>> /\ available' = <<>> /\ plan' = NoPlan /\ resolved' = <<>>
    /\ trace' = <<>> /\ idx' = 1 /\ context' = {} /\ failed' = FALSE
    /\ notfound' = FALSE /\ o_pc' = at /\ status' = "none" /\ caught' = FALSE
    /\ hist' = NoHist /\ persist' = NoPersist /\ log' = <<>>

MonitorSleep == MonitorBetween("sleeping")

\* main.py:158: the per-incident code is over, the for loop goes on
MonitorNextIncident ==
    /\ mode = "monitor" /\ o_pc = "done"
    /\ MonitorBetween("next")
    /\ UNCHANGED <<mode, xvars, svars>>

\* main.py:158 and 271: the for loop takes the next incident of the batch,
\* or the batch is over and the monitor sleeps
MonitorTake ==
    /\ mode = "monitor" /\ o_pc = "next"
    /\ \/ MonitorFresh
       \/ MonitorSleep
    /\ UNCHANGED <<mode, xvars, svars>>

\* main.py:273-275: an exception left the per-incident code (the status
\* update of the finally clause raised); the outer handler logs it and
\* sleeps, the rest of the batch is not processed
MonitorOuterCatch ==
    /\ mode = "monitor" /\ o_pc = "aborted"
    /\ MonitorSleep
    /\ UNCHANGED <<mode, xvars, svars>>

\* main.py:150-156: after the sleep the monitor polls again: it is given a
\* batch, or finds nothing or the query raises (lines 269-275: sleep again)
MonitorPoll ==
    /\ mode = "monitor" /\ o_pc = "sleeping"
    /\ MonitorBetween("next")
    /\ UNCHANGED <<mode, xvars, svars>>

vars == <<mode, svars, ovars, xvars>>


OrchIdle ==
    /\ scripts_db = <<>> /\ available = <<>> /\ plan = NoPlan /\ resolved = <<>>
    /\ trace = <<>> /\ idx = 1 /\ context = {} /\ failed = FALSE /\ notfound = FALSE
    /\ o_pc = "idle" /\ status = "none" /\ caught = FALSE /\ hist = NoHist
    /\ persist = NoPersist /\ log = <<>>

FuncIdle == f_pc = "idle" /\ f_in = <<>> /\ f_out = <<>>

ExecIdle ==
    /\ e_pc = "idle" /\ e_in = <<>> /\ e_tmp = FALSE /\ e_log = <<>> /\ e_res = <<>>
    /\ e_left = 0 /\ e_cmd = <<>>

\* no request to the scripts table
RegIdle == r_rows = {} /\ r_next = 1 /\ r_tx = <<>>

\* no feedback traffic
FbIdle ==
    /\ b_store = <<>> /\ b_clock = 0 /\ b_pg = <<>> /\ b_sub = <<>>
    /\ b_pop = <<>> /\ b_ghost = <<>> /\ b_read = <<>>

\* no attempt writes to incident_history
HistIdle == h_rows = <<>> /\ h_at = <<>>

IndexIdle == q_index = <<>>

SettingsIdle == k_settings = <<>>

LoopIdle == m_loop = <<>>

MoreIdle == HistIdle /\ IndexIdle /\ SettingsIdle /\ LoopIdle

AuxIdle == RegIdle /\ FbIdle /\ MoreIdle

InitSearch == mode = "search" /\ SearchInit /\ OrchIdle /\ FuncIdle /\ ExecIdle /\ AuxIdle

InitAgent == mode = "agent" /\ SearchIdle /\ AgentInit /\ FuncIdle /\ ExecIdle /\ AuxIdle

InitMonitor ==
    mode = "monitor" /\ SearchIdle /\ MonitorInit /\ FuncIdle /\ ExecIdle /\ AuxIdle

Init == InitAgent \/ InitMonitor

AgentNext ==
    \/ AgentNoSop
    \/ AgentSopFound
    \/ AgentSopRaises
    \/ AgentPlanEmpty
    \/ AgentPlanRaises
    \/ AgentPlanned
    \/ AgentStepManual
    \/ AgentStepNotFound
    \/ AgentStepNoType
    \/ AgentExtractRaises
    \/ AgentStepMissing
    \/ AgentStepExecute
    \/ AgentFinish

MonitorNext ==
    \/ MonitorBegin
    \/ MonitorBeginRaises
    \/ MonitorNoSop
    \/ MonitorSopFound
    \/ MonitorSopRaises
    \/ MonitorPlanEmpty
    \/ MonitorPlanRaises
    \/ MonitorPlanned
    \/ MonitorStepSkipped
    \/ MonitorStepManual
    \/ MonitorExtractRaises
    \/ MonitorStepMissing
    \/ MonitorStepExecute
    \/ MonitorExecuteRaises
    \/ MonitorLoopEnd
    \/ MonitorFinalize
    \/ MonitorNextIncident
    \/ MonitorTake
    \/ MonitorOuterCatch
    \/ MonitorPoll

Next == AgentNext \/ MonitorNext

\* a run of ResolverAgent.run or of the monitor's per-incident code
Spec == Init /\ [][Next]_vars

\* a run of ResolverAgent.run
SpecAgent == InitAgent /\ [][AgentNext]_vars

\* a call of search_sop_by_query
SpecSearch == InitSearch /\ [][SearchNext]_vars

\* ------------------------------------- Stage 1 of the search as a function
\* values INITIAL_SEARCH_THRESHOLD may be set to
Thresholds == {DEFAULT_HYDE_THRESHOLD, DEFAULT_INITIAL_THRESHOLD, 60000}

\* one index answer and one feedback summary, ranked under two thresholds
Stage1Inputs ==
    { [raw |-> raw, fb |-> fb, apply_threshold |-> a, t1 |-> t1, t2 |-> t2] :
        raw \in RawResults, fb \in Feedbacks, a \in BOOLEAN,
        t1 \in Thresholds, t2 \in Thresholds }

InitStage1 ==
    /\ mode = "stage1" /\ SearchIdle /\ OrchIdle /\ ExecIdle /\ AuxIdle
    /\ f_pc = "ready" /\ f_in \in Stage1Inputs /\ f_out = <<>>

\* lines 169-193 run on the same index answer and feedback summary under
\* INITIAL_SEARCH_THRESHOLD = t1 and under INITIAL_SEARCH_THRESHOLD = t2
Stage1Apply ==
    /\ mode = "stage1" /\ f_pc = "ready"
    /\ LET reranked == rerank_with_feedback(f_in.fb, f_in.raw)
       IN  f_out' = [reranked |-> reranked,
                     with_t1 |-> Stage1Results(reranked, f_in.apply_threshold, f_in.t1),
                     with_t2 |-> Stage1Results(reranked, f_in.apply_threshold, f_in.t2)]
    /\ f_pc' = "done"
    /\ UNCHANGED <<mode, svars, ovars, evars, yvars, f_in>>

SpecStage1 == InitStage1 /\ [][Stage1Apply]_vars

\* --------------------------------------- rerank_with_feedback as a function
\* index answers over a wider range of similarities (-0.3 .. 1.0), and
\* feedback summaries with larger counters
RerankInputs ==
    [raw : { r \in UNION { [1 .. n -> [id : PointIds,
                                       score : {0 - 30000, 30000, 49996, 80000,
                                                93000, ONE}]] :
                           n \in 0 .. MaxHits } :
               \A i, j \in DOMAIN r :
                 i < j => r[i].id # r[j].id /\ r[i].score >= r[j].score },
     fb : { [present |-> FALSE, counts |-> ZeroCounters] }
          \cup { [present |-> TRUE, counts |-> c] :
                   c \in [PointIds -> Counters
                                      \cup { [correct |-> 5, incorrect |-> 0],
                                             [correct |-> 1, incorrect |-> 3] }] }]

InitRerank ==
    /\ mode = "rerank" /\ SearchIdle /\ OrchIdle /\ ExecIdle /\ AuxIdle
    /\ f_pc = "ready" /\ f_in \in RerankInputs /\ f_out = <<>>

RerankApply ==
    /\ mode = "rerank" /\ f_pc = "ready"
    /\ f_out' = rerank_with_feedback(f_in.fb, f_in.raw)
    /\ f_pc' = "done"
    /\ UNCHANGED <<mode, svars, ovars, evars, yvars, f_in>>

SpecRerank == InitRerank /\ [][RerankApply]_vars

\* ----------------------------------- get_redis_key_for_incident as a function
\* texts are sequences of characters; "a"/"A" stand for a letter in its two
\* cases and " " for whitespace
Chars == {"a", "A", " "}
Texts == UNION { [1 .. n -> Chars] : n \in 0 .. MaxText }

RECURSIVE LStripText(_)
LStripText(t) == IF t # <<>> /\ Head(t) = " " THEN LStripText(Tail(t)) ELSE t

RECURSIVE RStripText(_)
RStripText(t) ==
    IF t # <<>> /\ t[Len(t)] = " " THEN RStripText(SubSeq(t, 1, Len(t) - 1)) ELSE t

\* str.strip()
Strip(t) == RStripText(LStripText(t))

\* str.lower()
LowerText(t) == [k \in DOMAIN t |-> IF t[k] = "A" THEN "a" ELSE t[k]]

\* None, where a text is expected
None == <<"None">>

\* short_desc or '', desc or ''
OrEmpty(t) == IF t = None THEN <<>> ELSE t

\* a key that keeps the letter case of the text
get_redis_key_for_incident_CaseSensitive(short_desc, desc) ==
    <<"feedback:desc_hash", Strip(OrEmpty(short_desc) \o <<":", ":">> \o OrEmpty(desc))>>

\* the digest is kept as the text it is taken of: equal texts have equal
\* keys, and different texts different keys (up to a collision of the first
\* 64 bits of SHA-256)
get_redis_key_for_incident(short_desc, desc) ==
    <<"feedback:desc_hash",
      LowerText(Strip(OrEmpty(short_desc) \o <<":", ":">> \o OrEmpty(desc)))>>

Incidents == [short : Texts, desc : Texts \cup {None}]

\* the texts feedback is submitted with
SubmittedTexts == {<<>>, <<"a">>, <<"A">>, <<" ">>, <<"a", " ">>, <<" ", "a">>}

\* the incident as add_retrieval_feedback is given it and as
\* search_sop_by_query is given it
KeyInputs ==
    [written : [short : SubmittedTexts, desc : SubmittedTexts \cup {None}],
     read : Incidents]

InitKey ==
    /\ mode = "key" /\ SearchIdle /\ OrchIdle /\ ExecIdle /\ AuxIdle
    /\ f_pc = "ready" /\ f_in \in KeyInputs /\ f_out = <<>>

\* feedback_service.py line 59
KeyWritten ==
    /\ mode = "key" /\ f_pc = "ready"
    /\ f_out' = [written |-> get_redis_key_for_incident(f_in.written.short,
                                                        f_in.written.desc),
                 read |-> <<>>]
    /\ f_pc' = "written"
    /\ UNCHANGED <<mode, svars, ovars, evars, yvars, f_in>>

\* search_sop.py line 62, reached from lines 171 and 221
KeyRead ==
    /\ mode = "key" /\ f_pc = "written"
    /\ f_out' = [f_out EXCEPT !.read =
                   get_redis_key_for_incident(f_in.read.short, f_in.read.desc)]
    /\ f_pc' = "done"
    /\ UNCHANGED <<mode, svars, ovars, evars, yvars, f_in>>

SpecKey == InitKey /\ [][KeyWritten \/ KeyRead]_vars

\* ------------------------------------------- resolve_scripts as a function
\* the names of Scenario B, a letter coded by its place in the alphabet,
\* "-" by 30 and "_" by 31: "restart-webserver" and "restart_web_server"
RestartTool ==
    <<18, 5, 19, 20, 1, 18, 20, 30, 23, 5, 2, 19, 5, 18, 22, 5, 18>>

RestartScript ==
    <<18, 5, 19, 20, 1, 18, 20, 31, 23, 5, 2, 31, 19, 5, 18, 22, 5, 18>>

\* tool names a plan step may carry: none, "abc", "Abc"
ResolveTools == {NoTool, <<1, 2, 3>>, <<101, 2, 3>>}

\* script names of the registry: "abcxxxx" (contains the tool, ratio 0.6),
\* "ABC" (the tool in upper case), "abd" and "abe" (ratio 2/3, no substring),
\* "a" (ratio exactly 1/2), "ad" (ratio 2/5), "zz" (ratio 0)
ResolveNames ==
    { <<1, 2, 3, 9, 9, 9, 9>>, <<101, 102, 103>>, <<1, 2, 4>>, <<1, 2, 5>>,
      <<1>>, <<1, 4>>, <<8, 8>> }

\* registries of up to MaxScripts scripts with distinct names, in any order;
\* the id of a row is its position
ResolveRegistries ==
    { [i \in DOMAIN ns |-> [id |-> i, name |-> ns[i], script_type |-> Null,
                            params |-> <<>>]] :
        ns \in { q \in UNION { [1 .. n -> ResolveNames] : n \in 0 .. MaxScripts } :
                  \A i, j \in DOMAIN q : i # j => q[i] # q[j] } }

\* the registries Scenario B is run against: "restart_web_server" with or
\* without "rest" and "zz" beside it, in any order
ScenarioNames == { RestartScript, <<18, 5, 19, 20>>, <<8, 8>> }

ScenarioRegistries ==
    { [i \in DOMAIN ns |-> [id |-> i, name |-> ns[i], script_type |-> Null,
                            params |-> <<>>]] :
        ns \in { q \in UNION { [1 .. n -> ScenarioNames] : n \in 0 .. MaxScripts } :
                  \A i, j \in DOMAIN q : i # j => q[i] # q[j] } }

InitResolve ==
    /\ mode = "resolve" /\ SearchIdle /\ OrchIdle /\ ExecIdle /\ AuxIdle
    /\ f_pc = "ready" /\ f_out = <<>>
    /\ f_in \in [tool : ResolveTools, scripts : ResolveRegistries]
                 \cup [tool : {RestartTool}, scripts : ScenarioRegistries]

\* resolve_scripts on a plan of one step; compared is the number of scripts
\* the step was matched against
ResolveApply ==
    /\ mode = "resolve" /\ f_pc = "ready"
    /\ f_out' = [entry |-> resolve_scripts(<<f_in.tool>>, f_in.scripts)[1],
                 compared |-> IF f_in.tool = NoTool THEN 0 ELSE Len(f_in.scripts)]
    /\ f_pc' = "done"
    /\ UNCHANGED <<mode, svars, ovars, evars, yvars, f_in>>

SpecResolve == InitResolve /\ [][ResolveApply]_vars

\* ------------------------------------------------- ExecutionAgent.run
\* tool_name: the tool of the belt, or another
ExecInputs ==
    [tool_name : {"shell_script", "python_script"},
     parameters : [1 .. MaxParams -> ParamVals],
     params : ParamLists]

\* a shell script with one declared parameter more, each either required
\* with no default or optional with one
WiderInputs ==
    [tool_name : {"shell_script"},
     parameters : [1 .. MaxParams + 1 -> ParamVals],
     params : [1 .. MaxParams + 1 ->
                 {[required |-> TRUE, default_value |-> Null],
                  [required |-> FALSE, default_value |-> Null]}]]

InitExec ==
    /\ mode = "exec" /\ SearchIdle /\ OrchIdle /\ FuncIdle /\ AuxIdle
    /\ e_pc = "ready" /\ e_in \in ExecInputs \cup WiderInputs
    /\ e_tmp = FALSE /\ e_log = <<>> /\ e_res = <<>> /\ e_left = 0 /\ e_cmd = <<>>

Result(st, output) == [status |-> st, output |-> output]

Called(op, ok, argc) == [op |-> op, ok |-> ok, argc |-> argc]

\* execution_agent.py:32-34
ExecUnknownTool ==
    /\ mode = "exec" /\ e_pc = "ready"
    /\ e_in.tool_name \notin ToolBelt
    /\ e_res' = Result("error", "tool_not_found")
    /\ e_pc' = "done"
    /\ UNCHANGED <<mode, svars, ovars, fvars, yvars, e_left, e_cmd, e_in, e_tmp, e_log>>

\* a dispatch that does not look the tool up in the belt
ExecDispatch_Unchecked ==
    /\ mode = "exec" /\ e_pc = "ready"
    /\ e_pc' = "lookup"
    /\ UNCHANGED <<mode, svars, ovars, fvars, yvars, e_left, e_cmd, e_in, e_tmp, e_log, e_res>>

\* execution_agent.py:36-42: the tool function is called
ExecDispatch ==
    /\ mode = "exec" /\ e_pc = "ready"
    /\ e_in.tool_name \in ToolBelt
    /\ e_pc' = "lookup"
    /\ UNCHANGED <<mode, svars, ovars, fvars, yvars, e_left, e_cmd, e_in, e_tmp, e_log, e_res>>

\* a handler that lets the exception go on to the caller
ExecCatch_Reraises == e_pc' = "propagated" /\ e_res' = <<>>

\* execution_agent.py:44-46: an exception of the tool function is caught
ExecCatch == e_pc' = "done" /\ e_res' = Result("error", "failed_to_execute")

\* tools.py:40-46: get_script_by_name returns the row, a row without
\* content, or None, or raises (outside the tool's try)
ToolLookup ==
    /\ mode = "exec" /\ e_pc = "lookup"
    /\ \E got \in {"row", "empty", "none", "raised"} :
         /\ e_log' = Append(e_log, Called("lookup", got # "raised", 0))
         /\ CASE got = "row" -> e_pc' = "create" /\ e_res' = e_res
              [] got = "empty" -> e_pc' = "done"
                                  /\ e_res' = Result("error", "content_empty")
              [] got = "none" -> e_pc' = "done"
                                 /\ e_res' = Result("error", "script_not_found")
              [] got = "raised" -> ExecCatch
    /\ UNCHANGED <<mode, svars, ovars, fvars, yvars, e_left, e_cmd, e_in, e_tmp>>

\* tools.py:76-78: the tool's own handler; the finally clause runs next
ToolExcept == e_pc' = "finally" /\ e_res' = Result("error", "unexpected_error")

\* tools.py:50-52: the temporary file is created and written; creation may
\* raise (no file), and writing may raise (the file exists)
ToolCreate ==
    /\ mode = "exec" /\ e_pc = "create"
    /\ \E got \in {"written", "not_created", "not_written"} :
         /\ e_log' = Append(e_log, Called("create", got = "written", 0))
         /\ e_tmp' = (got # "not_created")
         /\ IF got = "written" THEN e_pc' = "chmod" /\ e_res' = e_res
                               ELSE ToolExcept
    /\ UNCHANGED <<mode, svars, ovars, fvars, yvars, e_left, e_cmd, e_in>>

\* tools.py:54
ToolChmod ==
    /\ mode = "exec" /\ e_pc = "chmod"
    /\ \E ok \in BOOLEAN :
         /\ e_log' = Append(e_log, Called("chmod", ok, 0))
         /\ IF ok THEN e_pc' = "run" /\ e_res' = e_res ELSE ToolExcept
    /\ UNCHANGED <<mode, svars, ovars, fvars, yvars, e_left, e_cmd, e_in, e_tmp>>

\* tools.py:60: parameters.get(param_name, param.get('default_value')) -- the
\* default is used only when the key is not in the dict
ArgValue(k) ==
    IF e_in.parameters[k] = "absent" THEN e_in.params[k].default_value
    ELSE e_in.parameters[k]

\* tools.py:56-62: the arguments of the command, one per declared parameter
\* whose value (given, else the default) is not None
CommandArgs == { k \in DOMAIN e_in.params : ArgValue(k) # Null }

\* the command's arguments in the order they are appended
Command ==
    SelectSeq([k \in DOMAIN e_in.params |-> [param |-> k, value |-> ArgValue(k)]],
              LAMBDA a : a.value # Null)

\* tools.py:64-74: subprocess.run raises, or the script ends with exit
\* status 0 or another
ToolRun ==
    /\ mode = "exec" /\ e_pc = "run"
    /\ \E got \in {"raised", "zero", "nonzero"}, stdout \in {"text", "blank"} :
         /\ e_log' = Append(e_log, Called("subprocess", got # "raised",
                                          1 + Cardinality(CommandArgs)))
         /\ e_cmd' = Command
         /\ CASE got = "raised" -> ToolExcept
              [] got = "zero" ->
                   /\ e_pc' = "finally"
                   /\ e_res' = Result("success", IF stdout = "text" THEN "stdout"
                                                 ELSE "no_output_message")
              [] got = "nonzero" ->
                   /\ e_pc' = "finally"
                   /\ e_res' = Result("error", "script_failed")
    /\ UNCHANGED <<mode, svars, ovars, fvars, yvars, e_left, e_in, e_tmp>>

\* a finally clause that removes the file only after a script that ran
ToolFinally_OnlyAfterRun ==
    /\ mode = "exec" /\ e_pc = "finally"
    /\ IF e_tmp /\ e_res.output # "unexpected_error"
         THEN \E ok \in BOOLEAN :
                /\ e_log' = Append(e_log, Called("unlink", ok, 0))
                /\ e_tmp' = ~ok
                /\ IF ok THEN e_pc' = "done" /\ e_res' = e_res ELSE ExecCatch
         ELSE /\ e_pc' = "done"
              /\ UNCHANGED <<e_tmp, e_log, e_res>>
    /\ UNCHANGED <<mode, svars, ovars, fvars, yvars, e_left, e_cmd, e_in>>

\* tools.py:79-81: the file is removed if it exists; os.unlink may raise, and
\* the exception replaces the value being returned
ToolFinally ==
    /\ mode = "exec" /\ e_pc = "finally"
    /\ IF e_tmp
         THEN \E ok \in BOOLEAN :
                /\ e_log' = Append(e_log, Called("unlink", ok, 0))
                /\ e_tmp' = ~ok
                /\ IF ok THEN e_pc' = "done" /\ e_res' = e_res ELSE ExecCatch
         ELSE /\ e_pc' = "done"
              /\ UNCHANGED <<e_tmp, e_log, e_res>>
    /\ UNCHANGED <<mode, svars, ovars, fvars, yvars, e_left, e_cmd, e_in>>

\* the next call of a sequence of calls: a file the last call left behind
\* stays where it is
ExecAgain ==
    /\ mode = "exec" /\ e_pc = "done"
    /\ e_left + (IF e_tmp THEN 1 ELSE 0) <= MaxLeft
    /\ e_left' = e_left + (IF e_tmp THEN 1 ELSE 0)
    /\ e_in' \in ExecInputs
    /\ e_pc' = "ready" /\ e_tmp' = FALSE /\ e_log' = <<>> /\ e_res' = <<>>
    /\ e_cmd' = <<>>
    /\ UNCHANGED <<mode, svars, ovars, fvars, yvars>>

ExecNext ==
    \/ ExecAgain
    \/ ExecUnknownTool
    \/ ExecDispatch
    \/ ToolLookup
    \/ ToolCreate
    \/ ToolChmod
    \/ ToolRun
    \/ ToolFinally

\* a call of ExecutionAgent.run
SpecExec == InitExec /\ [][ExecNext]_vars

\* ------------------------------- scripts table: add_script_to_db and
\* update_script_in_db called by concurrent requests, each on a connection
\* of its own (psycopg2.connect, the server's default isolation level: a
\* statement sees what was committed before it)
Clients == 1 .. MaxClients
RegNames == {"a", "b"}
NoTx == [op |-> "none", id |-> 0, name |-> "", pc |-> "idle", result |-> "none"]

InitRegistry ==
    /\ mode = "registry" /\ SearchIdle /\ OrchIdle /\ FuncIdle /\ ExecIdle /\ FbIdle
    /\ MoreIdle
    /\ r_rows = {} /\ r_next = 1 /\ r_tx = [c \in Clients |-> NoTx]

notreg == <<mode, svars, ovars, fvars, evars, bvars, wvars>>

\* a request arrives: add a script, or update the script with some id
RegCall(c) ==
    /\ mode = "registry" /\ r_tx[c].pc \in {"idle", "done"}
    /\ \E op \in {"add", "update"}, id \in 1 .. MaxRows, name \in RegNames :
         r_tx' = [r_tx EXCEPT ![c] = [op |-> op, id |-> IF op = "add" THEN 0 ELSE id,
                                      name |-> name, pc |-> "check", result |-> "none"]]
    /\ UNCHANGED <<notreg, r_rows, r_next>>

\* the rows with the name, as a statement run now sees them
RowsNamed(name) == { r \in r_rows : r.name = name }

\* scripts.py:200-202 and 246-249: the duplicate check; add counts the rows
\* with the name, update fetches one of them and compares its id
NameTaken(tx) ==
    IF tx.op = "add" THEN { RowsNamed(tx.name) # {} }
    ELSE IF RowsNamed(tx.name) = {} THEN { FALSE }
    ELSE { r.id # tx.id : r \in RowsNamed(tx.name) }

\* the SELECT of the duplicate check; a taken name raises ValueError, the
\* handler rolls back and re-raises
RegCheck(c) ==
    /\ mode = "registry" /\ r_tx[c].pc = "check"
    /\ \E taken \in NameTaken(r_tx[c]) :
         r_tx' = [r_tx EXCEPT ![c].pc = IF taken THEN "done" ELSE "write",
                              ![c].result = IF taken THEN "ValueError" ELSE "none"]
    /\ UNCHANGED <<notreg, r_rows, r_next>>

\* scripts.py:205-227 and 252-273: INSERT or UPDATE and the parameter rows,
\* then commit; the row becomes visible to the others at the commit
RegCommit(c) ==
    /\ mode = "registry" /\ r_tx[c].pc = "write"
    /\ IF r_tx[c].op = "add"
         THEN /\ r_next <= MaxRows
              /\ r_rows' = r_rows \cup {[id |-> r_next, name |-> r_tx[c].name]}
              /\ r_next' = r_next + 1
         ELSE /\ r_rows' = { IF r.id = r_tx[c].id
                               THEN [id |-> r.id, name |-> r_tx[c].name] ELSE r :
                             r \in r_rows }
              /\ r_next' = r_next
    /\ r_tx' = [r_tx EXCEPT ![c].pc = "done", ![c].result = "ok"]
    /\ UNCHANGED notreg

\* scripts.py:231-233 and 277-279: a statement or the commit raised; the
\* transaction is rolled back and an Exception raised (an id the sequence
\* handed out is not given back)
RegFail(c) ==
    /\ mode = "registry" /\ r_tx[c].pc \in {"check", "write"}
    /\ \E used \in {0, 1} :
         /\ used = 1 => (r_tx[c].op = "add" /\ r_tx[c].pc = "write" /\ r_next <= MaxRows)
         /\ r_next' = r_next + used
    /\ r_tx' = [r_tx EXCEPT ![c].pc = "done", ![c].result = "Exception"]
    /\ UNCHANGED <<notreg, r_rows>>

RegNext == \E c \in Clients : RegCall(c) \/ RegCheck(c) \/ RegCommit(c) \/ RegFail(c)

\* concurrent requests to add and update scripts
SpecRegistry == InitRegistry /\ [][RegNext]_vars

\* ------------------------------------------------- the Feedback Summary
\* concurrent feedback submissions, cache pre-population and re-ranking
\* reads on the Redis hash of one incident key
CONFIDENCE_THRESHOLD == 3

\* the candidates feedback is given on
AgentIds == {"P1", "P2"}

\* the hash is absent until its first write and after its TTL has run out
NoSummary ==
    [present |-> FALSE, correct_count |-> 0, incorrect_count |-> 0,
     correct_agent |-> [a \in AgentIds |-> 0],
     incorrect_recommendation |-> [a \in AgentIds |-> 0],
     last_feedback_ts |-> 0, ttl |-> "none"]

\* user_feedback_type, and the agent id handed to update_feedback_summary
\* (correct_agent_id or recommended_agent_id), which may be None
Submissions ==
    { sub \in [type : {"Correct", "Incorrect"}, named : BOOLEAN, agent : AgentIds] :
        ~sub.named => sub.agent = "P1" }

NoSubmission ==
    [pc |-> "idle", type |-> "none", named |-> FALSE, agent |-> "P1", applied |-> FALSE]

InitFeedback ==
    /\ mode = "feedback" /\ SearchIdle /\ OrchIdle /\ FuncIdle /\ ExecIdle /\ RegIdle
    /\ MoreIdle
    /\ b_store = NoSummary /\ b_clock = 0
    /\ \E rows \in {0, CONFIDENCE_THRESHOLD - 1} : b_pg = [a \in AgentIds |-> rows]
    /\ b_sub = [c \in Clients |-> NoSubmission]
    /\ b_pop = [pc |-> "idle", items |-> {}]
    /\ b_ghost = [prepopulated |-> [a \in AgentIds |-> 0], expired |-> FALSE]
    /\ b_read = [state |-> "none", summary |-> NoSummary]

notfb == <<mode, svars, ovars, fvars, evars, rvars, wvars>>

\* a pipeline that increments the totals only
Pipeline_TotalsOnly(store, type, named, agent, ttl, now) ==
    [store EXCEPT
       !.present = TRUE,
       !.correct_count = IF type = "Correct" THEN @ + 1 ELSE @,
       !.incorrect_count = IF type = "Incorrect" THEN @ + 1 ELSE @,
       !.last_feedback_ts = now,
       !.ttl = ttl]

\* redis_client.py:88-102: the commands queued on the pipeline, executed as
\* one MULTI/EXEC transaction by pipe.execute()
Pipeline(store, type, named, agent, ttl, now) ==
    [store EXCEPT
       !.present = TRUE,
       !.correct_count = IF type = "Correct" THEN @ + 1 ELSE @,
       !.incorrect_count = IF type = "Incorrect" THEN @ + 1 ELSE @,
       !.correct_agent[agent] = IF type = "Correct" /\ named THEN @ + 1 ELSE @,
       !.incorrect_recommendation[agent] =
           IF type = "Incorrect" /\ named THEN @ + 1 ELSE @,
       !.last_feedback_ts = now,
       !.ttl = ttl]

\* update_feedback_summary: the pipeline is executed, or the pool is missing
\* or Redis raises, which is logged and changes nothing
update_feedback_summary(type, named, agent, ttl, ok) ==
    IF ok
      THEN /\ b_store' = Pipeline(b_store, type, named, agent, ttl, b_clock + 1)
           /\ b_clock' = b_clock + 1
      ELSE UNCHANGED <<b_store, b_clock>>

\* add_retrieval_feedback, lines 27-53: the row is inserted and committed,
\* or the insert fails and is rolled back
FeedbackInsert(c) ==
    /\ mode = "feedback" /\ b_sub[c].pc = "idle"
    /\ \E sub \in Submissions, pg_success \in BOOLEAN :
         /\ b_sub' = [b_sub EXCEPT ![c] =
                        [pc |-> "update", type |-> sub.type, named |-> sub.named,
                         agent |-> sub.agent, applied |-> FALSE]]
         /\ b_pg' = IF pg_success /\ sub.type = "Correct" /\ sub.named
                      THEN [b_pg EXCEPT ![sub.agent] = @ + 1]
                      ELSE b_pg
    /\ UNCHANGED <<notfb, b_store, b_clock, b_pop, b_ghost, b_read>>

\* add_retrieval_feedback, lines 58-69: the summary is updated whatever the
\* insert did; a failure of the update is logged
FeedbackUpdate(c) ==
    /\ mode = "feedback" /\ b_sub[c].pc = "update"
    /\ \E ok \in BOOLEAN :
         /\ update_feedback_summary(b_sub[c].type, b_sub[c].named, b_sub[c].agent,
                                    "7d", ok)
         /\ b_sub' = [b_sub EXCEPT ![c].pc = "done", ![c].applied = ok]
    /\ UNCHANGED <<notfb, b_pg, b_pop, b_ghost, b_read>>

\* populate_cache_from_feedback, lines 103-120: the groups of 'Correct' rows
\* with at least CONFIDENCE_THRESHOLD rows, or the query raises
PopulateFetch ==
    /\ mode = "feedback" /\ b_pop.pc = "idle"
    /\ \E ok \in BOOLEAN :
         LET items == { a \in AgentIds : b_pg[a] >= CONFIDENCE_THRESHOLD }
         IN  b_pop' = IF ~ok THEN [pc |-> "error", items |-> {}]
                      ELSE IF items = {} THEN [pc |-> "complete", items |-> {}]
                      ELSE [pc |-> "running", items |-> items]
    /\ UNCHANGED <<notfb, b_store, b_clock, b_pg, b_sub, b_ghost, b_read>>

\* populate_cache_from_feedback, lines 122-136: one item of the loop
PopulateItem ==
    /\ mode = "feedback" /\ b_pop.pc = "running"
    /\ \E a \in b_pop.items, ok \in BOOLEAN :
         /\ update_feedback_summary("Correct", TRUE, a, "30d", ok)
         /\ b_ghost' = [b_ghost EXCEPT
                          !.prepopulated[a] = IF ok THEN @ + 1 ELSE @]
         /\ b_pop' = IF b_pop.items = {a}
                       THEN [pc |-> "complete", items |-> {}]
                       ELSE [b_pop EXCEPT !.items = @ \ {a}]
    /\ UNCHANGED <<notfb, b_pg, b_sub, b_read>>

\* the TTL set by pipe.expire runs out: Redis removes the hash
SummaryExpires ==
    /\ mode = "feedback" /\ b_store.present
    /\ b_store' = NoSummary
    /\ b_ghost' = [b_ghost EXCEPT !.expired = TRUE]
    /\ UNCHANGED <<notfb, b_clock, b_pg, b_sub, b_pop, b_read>>

\* get_feedback_summary, called by rerank_with_feedback (search_sop.py:63):
\* the hash as HGETALL returns it, or None when there is none or Redis raises
RerankReads ==
    /\ mode = "feedback" /\ b_read.state = "none"
    /\ \E ok \in BOOLEAN :
         b_read' = IF ok /\ b_store.present
                     THEN [state |-> "summary", summary |-> b_store]
                     ELSE [state |-> "None", summary |-> NoSummary]
    /\ UNCHANGED <<notfb, b_store, b_clock, b_pg, b_sub, b_pop, b_ghost>>

FeedbackNext ==
    \/ \E c \in Clients : FeedbackInsert(c)
    \/ \E c \in Clients : FeedbackUpdate(c)
    \/ PopulateFetch
    \/ PopulateItem
    \/ SummaryExpires
    \/ RerankReads

SpecFeedback == InitFeedback /\ [][FeedbackNext]_vars

\* ------------------------------------------------------- upstream calls
\* one call to the LLM (call_ollama), to the embedder or to the vector index
\* (Stage 1 of search_sop_by_query), against an upstream that answers each
\* attempt with a response, a requests.RequestException or another exception
max_retries == 5

RetryInputs ==
    [call : {"llm", "embedding", "index"},
     upstream : [1 .. max_retries -> {"ok", "RequestException", "Exception"}]]

InitRetry ==
    /\ mode = "retry" /\ SearchIdle /\ OrchIdle /\ ExecIdle /\ AuxIdle
    /\ f_pc = "calling" /\ f_in \in RetryInputs
    /\ f_out = [attempts |-> 0, delays |-> <<>>, result |-> "pending"]

RECURSIVE Pow2(_)
Pow2(n) == IF n = 0 THEN 1 ELSE 2 * Pow2(n - 1)

\* llm_client.py:42-61: one pass of the while loop of call_ollama
OllamaAttempt ==
    /\ mode = "retry" /\ f_pc = "calling" /\ f_in.call = "llm"
    /\ f_out.attempts < max_retries
    /\ LET retries == f_out.attempts + 1
           answer == f_in.upstream[retries]
       IN  CASE answer = "ok" ->
                  /\ f_out' = [f_out EXCEPT !.attempts = retries, !.result = "response"]
                  /\ f_pc' = "done"
             [] answer = "RequestException" /\ retries < max_retries ->
                  /\ f_out' = [f_out EXCEPT !.attempts = retries,
                                            !.delays = Append(@, Pow2(retries))]
                  /\ f_pc' = "calling"
             [] answer = "RequestException" /\ retries >= max_retries ->
                  /\ f_out' = [f_out EXCEPT !.attempts = retries, !.result = "empty"]
                  /\ f_pc' = "done"
             [] answer = "Exception" ->
                  /\ f_out' = [f_out EXCEPT !.attempts = retries, !.result = "raised"]
                  /\ f_pc' = "done"
    /\ UNCHANGED <<mode, svars, ovars, evars, yvars, f_in>>

\* search_sop.py:159-197: a call made once inside the try of Stage 1; an
\* exception ends the stage (line 195) and the search goes on to Stage 2
Stage1Call(call) ==
    /\ mode = "retry" /\ f_pc = "calling" /\ f_in.call = call
    /\ f_out' = [f_out EXCEPT
                   !.attempts = 1,
                   !.result = IF f_in.upstream[1] = "ok" THEN "response"
                              ELSE "stage_failed"]
    /\ f_pc' = "done"
    /\ UNCHANGED <<mode, svars, ovars, evars, yvars, f_in>>

\* line 162: embedder.encode(search_query_text)
EncodeQuery == Stage1Call("embedding")

\* lines 163-167: qdrant_client.search(...)
IndexSearch == Stage1Call("index")

SpecRetry == InitRetry /\ [][OllamaAttempt \/ EncodeQuery \/ IndexSearch]_vars

\* ------------------------------------------------------ incident_history
\* resolution attempts, one after another, and what their calls of
\* add_incident_history_to_db and update_incident_history do to the table
IncidentNumbers == {"INC1", "INC2"}
\* no attempt is under way; id is the number of attempts so far
NoAttempt(id) == [active |-> FALSE, id |-> id, number |-> "none", calls |-> 0]

InitHistory ==
    /\ mode = "history" /\ SearchIdle /\ OrchIdle /\ FuncIdle /\ ExecIdle
    /\ RegIdle /\ FbIdle /\ IndexIdle /\ SettingsIdle /\ LoopIdle
    /\ h_rows = <<>> /\ h_at = NoAttempt(0)

nothist == <<mode, svars, ovars, fvars, evars, rvars, bvars, qvars, kvars, mvars>>

\* an attempt starts for an incident: monitor_new_incidents (main.py:170)
\* inserts a row with no plan and no steps, an insert whose database error
\* is printed and swallowed (scripts.py:298-300); ResolverAgent.run inserts
\* nothing. resolve_incident_by_number (main.py:469-471) inserts a row with
\* its plan and steps and makes no checkpoint
HistBegin ==
    /\ mode = "history" /\ ~h_at.active /\ h_at.id < MaxAttempts
    /\ \E n \in IncidentNumbers, inserted \in BOOLEAN :
         /\ h_at' = [active |-> TRUE, id |-> h_at.id + 1, number |-> n, calls |-> 0]
         /\ h_rows' = IF inserted
                        THEN Append(h_rows, [number |-> n, attempt |-> h_at.id + 1,
                                             by |-> h_at.id + 1, steps |-> 0])
                        ELSE h_rows
    /\ UNCHANGED <<nothist>>

\* update_incident_history (scripts.py:305-322): UPDATE incident_history SET
\* llm_plan, resolved_scripts WHERE incident_number = ...; or a database
\* error, printed and swallowed
HistCheckpoint ==
    /\ mode = "history" /\ h_at.active /\ h_at.calls <= MaxSteps
    /\ \E ok \in BOOLEAN :
         h_rows' = IF ok
                     THEN [k \in DOMAIN h_rows |->
                             IF h_rows[k].number = h_at.number
                               THEN [h_rows[k] EXCEPT !.by = h_at.id,
                                                      !.steps = h_at.calls]
                               ELSE h_rows[k]]
                     ELSE h_rows
    /\ h_at' = [h_at EXCEPT !.calls = @ + 1]
    /\ UNCHANGED <<nothist>>

\* the attempt is over
HistEnd ==
    /\ mode = "history" /\ h_at.active
    /\ h_at' = NoAttempt(h_at.id)
    /\ UNCHANGED <<nothist, h_rows>>

SpecHistory == InitHistory /\ [][HistBegin \/ HistCheckpoint \/ HistEnd]_vars

\* ------------------------------------------------ the script search index
\* The requests that change the registry (main.py add_script, update_script,
\* delete_script) and the synchronization they trigger.  The registry is
\* r_rows and r_next; the requests are taken one at a time.

InitIndex ==
    /\ mode = "index" /\ SearchIdle /\ OrchIdle /\ FuncIdle /\ ExecIdle
    /\ RegIdle /\ FbIdle /\ HistIdle /\ SettingsIdle /\ LoopIdle
    /\ q_index = [points |-> {}, last |-> "none"]

notindex == <<mode, svars, ovars, fvars, evars, bvars, hvars, kvars, mvars, r_tx>>

\* upsert: a point whose id is among the new ones is replaced, every other
\* point of the collection stays
Upsert(points, new) ==
    { p \in points : \A n \in new : n.id # p.id } \cup new

\* sync_scripts_to_qdrant over the rows it fetched: with no rows it returns
\* before touching the collection, otherwise it upserts one point per row
sync_scripts_to_qdrant(points, rows) ==
    IF rows = {} THEN points ELSE Upsert(points, rows)

\* the rest of a request after its registry write: the synchronization runs
\* and the request answers 200, or the synchronization (or the activity log
\* before it answered) raises and the request answers 500
SyncAfter(rows) ==
    \E synced \in BOOLEAN :
      q_index' = IF synced
                   THEN [points |-> sync_scripts_to_qdrant(q_index.points, rows),
                         last |-> "ok"]
                   ELSE [q_index EXCEPT !.last = "error"]

\* POST /scripts/add
add_script ==
    /\ mode = "index"
    /\ \E name \in RegNames, dbok \in BOOLEAN :
         IF RowsNamed(name) # {}
           THEN /\ q_index' = [q_index EXCEPT !.last = "conflict"]
                /\ UNCHANGED <<r_rows, r_next>>
           ELSE IF dbok /\ r_next <= MaxRows
             THEN /\ r_rows' = r_rows \cup {[id |-> r_next, name |-> name]}
                  /\ r_next' = r_next + 1
                  /\ SyncAfter(r_rows')
             ELSE /\ q_index' = [q_index EXCEPT !.last = "error"]
                  /\ UNCHANGED <<r_rows, r_next>>
    /\ UNCHANGED notindex

\* PUT /scripts/update
update_script ==
    /\ mode = "index"
    /\ \E id \in 1 .. MaxRows, name \in RegNames, dbok \in BOOLEAN :
         IF \E r \in RowsNamed(name) : r.id # id
           THEN /\ q_index' = [q_index EXCEPT !.last = "conflict"]
                /\ UNCHANGED <<r_rows, r_next>>
           ELSE IF dbok
             THEN /\ r_rows' = { IF r.id = id THEN [id |-> id, name |-> name] ELSE r :
                                 r \in r_rows }
                  /\ r_next' = r_next
                  /\ SyncAfter(r_rows')
             ELSE /\ q_index' = [q_index EXCEPT !.last = "error"]
                  /\ UNCHANGED <<r_rows, r_next>>
    /\ UNCHANGED notindex

\* DELETE /scripts/delete/{script_id}
delete_script ==
    /\ mode = "index"
    /\ \E id \in 1 .. MaxRows, dbok \in BOOLEAN :
         IF dbok /\ \E r \in r_rows : r.id = id
           THEN /\ r_rows' = { r \in r_rows : r.id # id }
                /\ r_next' = r_next
                /\ SyncAfter(r_rows')
           ELSE /\ q_index' = [q_index EXCEPT !.last = "error"]
                /\ UNCHANGED <<r_rows, r_next>>
    /\ UNCHANGED notindex

SpecIndex == InitIndex /\ [][add_script \/ update_script \/ delete_script]_vars

\* ------------------------------------------------ the threshold settings
\* load_search_thresholds (settings_service.py) and its callers: the monitor
\* calls the search in a worker thread (main.py:173), the /search and
\* /incident requests call it on the event loop (main.py:417, 450), so two
\* calls can be under way at once.

Callers == {"monitor", "request"}

\* the rows of app_settings for the two keys; 0 stands for a missing row
StoredRows ==
    [initial : {0, 60000}, hyde : {0, 45000}]

Defaults == [initial |-> DEFAULT_INITIAL_THRESHOLD, hyde |-> DEFAULT_HYDE_THRESHOLD]

\* defaults.update(db_settings)
Loaded(rows) ==
    [initial |-> IF rows.initial = 0 THEN Defaults.initial ELSE rows.initial,
     hyde    |-> IF rows.hyde = 0 THEN Defaults.hyde ELSE rows.hyde]

NoCall == [pc |-> "idle", late |-> FALSE, read |-> FALSE, ret |-> Defaults]

InitSettings ==
    /\ mode = "settings" /\ SearchIdle /\ OrchIdle /\ FuncIdle /\ ExecIdle
    /\ RegIdle /\ FbIdle /\ HistIdle /\ IndexIdle /\ LoopIdle
    /\ \E rows \in StoredRows :
         k_settings = [store |-> rows,
                       cache |-> [set |-> FALSE, v |-> Defaults],
                       first |-> [set |-> FALSE, v |-> Defaults],
                       call  |-> [c \in Callers |-> NoCall]]

notsettings == <<mode, svars, ovars, fvars, evars, rvars, bvars, hvars, qvars, mvars>>

\* an administrator changes the stored settings
SettingsChange ==
    /\ mode = "settings"
    /\ \E rows \in StoredRows \ {k_settings.store} :
         k_settings' = [k_settings EXCEPT !.store = rows]
    /\ UNCHANGED notsettings

\* a call starts: with the cache populated it returns the cache
\* (settings_service.py:26-27), otherwise it goes on to the store
LoadCall(c) ==
    /\ mode = "settings" /\ k_settings.call[c].pc \in {"idle", "done"}
    /\ k_settings' =
         [k_settings EXCEPT !.call[c] =
            IF k_settings.cache.set
              THEN [pc |-> "done", late |-> k_settings.first.set, read |-> FALSE,
                    ret |-> k_settings.cache.v]
              ELSE [pc |-> "load", late |-> k_settings.first.set, read |-> FALSE,
                    ret |-> Defaults]]
    /\ UNCHANGED notsettings

\* the call reads the store (settings_service.py:31-44): the rows read are
\* merged into the defaults, cached and returned; or the read raises and the
\* defaults are returned with nothing cached (settings_service.py:46-49)
LoadStore(c) ==
    /\ mode = "settings" /\ k_settings.call[c].pc = "load"
    /\ \E ok \in BOOLEAN :
         k_settings' =
           IF ok
             THEN [k_settings EXCEPT
                     !.cache = [set |-> TRUE, v |-> Loaded(k_settings.store)],
                     !.first = IF @.set THEN @
                               ELSE [set |-> TRUE, v |-> Loaded(k_settings.store)],
                     !.call[c] = [@ EXCEPT !.pc = "done", !.read = TRUE,
                                           !.ret = Loaded(k_settings.store)]]
             ELSE [k_settings EXCEPT
                     !.call[c] = [@ EXCEPT !.pc = "done", !.read = TRUE,
                                           !.ret = Defaults]]
    /\ UNCHANGED notsettings

SpecSettings ==
    InitSettings /\ [][SettingsChange \/ \E c \in Callers : LoadCall(c) \/ LoadStore(c)]_vars

\* ------------------------------------------------ the monitor's cycles
\* monitor_new_incidents (main.py:145-276) over the incidents table: what it
\* is given by a poll, the order in which it takes the incidents of a batch,
\* and the statuses it writes.  The resolution of one incident is followed
\* as far as its status and the execution of its scripts go.

IncidentIds == 1 .. MaxIncidents

\* the ids of a set in ascending order (ORDER BY "id" ASC)
Ascending(S) ==
    CHOOSE q \in [1 .. Cardinality(S) -> S] :
      \A i, j \in 1 .. Cardinality(S) : i < j => q[i] < q[j]

\* a discovery that takes the incidents in progress too
get_new_unresolved_incidents_WithInProgress(table) ==
    Ascending({ i \in IncidentIds : table[i] \in {"New", "In Progress"} })

\* get_new_unresolved_incidents: the rows WHERE status IN ('New')
get_new_unresolved_incidents(table) ==
    Ascending({ i \in IncidentIds : table[i] = "New" })

InitCycles ==
    /\ mode = "cycles" /\ SearchIdle /\ OrchIdle /\ FuncIdle /\ ExecIdle
    /\ RegIdle /\ FbIdle /\ HistIdle /\ IndexIdle /\ SettingsIdle
    /\ \E t \in [IncidentIds -> {"absent", "New"}] :
         m_loop = [table |-> t, pc |-> "sleeping", batch |-> <<>>, cur |-> 0,
                   failed |-> FALSE, notfound |-> FALSE,
                   execs |-> [i \in IncidentIds |-> 0]]

notcycles == <<mode, svars, ovars, fvars, evars, rvars, bvars, hvars, qvars, kvars>>

\* an incident is created, from outside, with status New
IncidentArrives ==
    /\ mode = "cycles"
    /\ \E i \in IncidentIds :
         /\ m_loop.table[i] = "absent"
         /\ m_loop' = [m_loop EXCEPT !.table[i] = "New"]
    /\ UNCHANGED notcycles

\* main.py:150-156, 269-275: the poll; it gives the batch, or it raises and
\* the monitor sleeps again
CyclePoll ==
    /\ mode = "cycles" /\ m_loop.pc = "sleeping"
    /\ \E ok \in BOOLEAN :
         m_loop' = IF ok
                     THEN [m_loop EXCEPT !.pc = "loop", !.cur = 0,
                             !.batch = get_new_unresolved_incidents(m_loop.table)]
                     ELSE [m_loop EXCEPT !.batch = <<>>, !.cur = 0]
    /\ UNCHANGED notcycles

\* main.py:158-163, 271: the for loop takes the next incident of the batch,
\* or the batch is over and the monitor sleeps
CycleTake ==
    /\ mode = "cycles" /\ m_loop.pc = "loop"
    /\ m_loop' = IF m_loop.batch = <<>>
                   THEN [m_loop EXCEPT !.pc = "sleeping", !.cur = 0]
                   ELSE [m_loop EXCEPT !.pc = "begin", !.cur = Head(m_loop.batch),
                           !.batch = Tail(m_loop.batch),
                           !.failed = FALSE, !.notfound = FALSE]
    /\ UNCHANGED notcycles

\* main.py:166-170: the status In Progress is written, or the write raises
\* and the except clause (255-257) sets resolution_failed
CycleInProgress ==
    /\ mode = "cycles" /\ m_loop.pc = "begin"
    /\ \E ok \in BOOLEAN :
         m_loop' = IF ok
                     THEN [m_loop EXCEPT !.table[m_loop.cur] = "In Progress",
                                         !.pc = "retrieve"]
                     ELSE [m_loop EXCEPT !.failed = TRUE, !.pc = "finally"]
    /\ UNCHANGED notcycles

\* main.py:172-179: the retrieval returns procedures, returns none, or raises
CycleRetrieve ==
    /\ mode = "cycles" /\ m_loop.pc = "retrieve"
    /\ \E res \in {"found", "empty", "raised"} :
         m_loop' = IF res = "found" THEN [m_loop EXCEPT !.pc = "plan"]
                   ELSE IF res = "empty"
                     THEN [m_loop EXCEPT !.failed = TRUE, !.notfound = TRUE,
                                         !.pc = "finally"]
                   ELSE [m_loop EXCEPT !.failed = TRUE, !.pc = "finally"]
    /\ UNCHANGED notcycles

\* main.py:181-191: the plan has steps, or it has none or the planner raises
CyclePlan ==
    /\ mode = "cycles" /\ m_loop.pc = "plan"
    /\ \E ok \in BOOLEAN :
         m_loop' = IF ok THEN [m_loop EXCEPT !.pc = "execute"]
                   ELSE [m_loop EXCEPT !.failed = TRUE, !.pc = "finally"]
    /\ UNCHANGED notcycles

\* main.py:196-257: the steps of the plan; ran says whether a script was
\* executed, ok whether the loop ended without an error status or exception
CycleExecute ==
    /\ mode = "cycles" /\ m_loop.pc = "execute"
    /\ \E ran \in BOOLEAN, ok \in BOOLEAN :
         /\ ran => m_loop.execs[m_loop.cur] < MaxRuns
         /\ m_loop' = [m_loop EXCEPT !.execs[m_loop.cur] = IF ran THEN @ + 1 ELSE @,
                                     !.failed = ~ok, !.pc = "finally"]
    /\ UNCHANGED notcycles

\* main.py:259-268: the final status is written and the for loop goes on, or
\* the write raises (incidents.py:203-207) and the exception leaves the loop
CycleFinalize ==
    /\ mode = "cycles" /\ m_loop.pc = "finally"
    /\ \E written \in BOOLEAN :
         m_loop' = IF written
                     THEN [m_loop EXCEPT
                             !.table[m_loop.cur] = FinalStatus(m_loop.notfound, m_loop.failed),
                             !.pc = "loop"]
                     ELSE [m_loop EXCEPT !.pc = "aborted"]
    /\ UNCHANGED notcycles

\* main.py:273-275: the outer handler logs and sleeps; what was left of the
\* batch stays unprocessed
CycleOuterCatch ==
    /\ mode = "cycles" /\ m_loop.pc = "aborted"
    /\ m_loop' = [m_loop EXCEPT !.pc = "sleeping"]
    /\ UNCHANGED notcycles

CycleNext ==
    \/ IncidentArrives \/ CyclePoll \/ CycleTake \/ CycleInProgress
    \/ CycleRetrieve \/ CyclePlan \/ CycleExecute \/ CycleFinalize
    \/ CycleOuterCatch

SpecCycles == InitCycles /\ [][CycleNext]_vars

\* ================================================================ claims
StageThreshold ==
    IF s_stage = "Direct" THEN s_in.thresholds.initial ELSE s_in.thresholds.hyde

\* C3: with apply_threshold true, every returned procedure has a (re-ranked)
\* score at or above the threshold of the stage that produced it
C3_ThresholdRespected ==
    (s_pc = "done" /\ s_in.apply_threshold)
      => \A i \in DOMAIN s_ret : s_ret[i].score >= StageThreshold

\* a Stage 2 call with thresholding returned a procedure that is below the
\* initial threshold (and at or above the HyDE threshold)
C3_Witness ==
    /\ s_pc = "done" /\ s_in.apply_threshold /\ s_stage = "HyDE"
    /\ \E i \in DOMAIN s_ret :
         /\ s_ret[i].score < s_in.thresholds.initial
         /\ s_ret[i].score >= s_in.thresholds.hyde

Stage1Ran == s_s1.state # "none"

\* C4 as stated: whenever Stage 1 yields no result at or above the initial
\* threshold (or raises), Stage 2 is attempted exactly once before the call
\* returns, and no call returns an empty list without having attempted Stage 2
C4_AsStated ==
    s_pc = "done" =>
      /\ (Stage1Ran /\ s_s1.high = 0) => s_hyde = 1
      /\ s_ret = <<>> => s_hyde = 1

\* C4, amended: Stage 2 is attempted at most once; with apply_threshold true it
\* is attempted exactly once whenever Stage 1 ran and yielded no result at or
\* above the initial threshold (or raised); with apply_threshold false it is
\* attempted (once) exactly when Stage 1 raised or yielded no candidate at all;
\* an empty list is returned without a Stage 2 attempt only when the clients are
\* not initialised, the search text is empty, or top_k is 0
C4_FallbackCompleteness ==
    /\ s_hyde <= 1
    /\ s_pc = "done" =>
         /\ (s_in.apply_threshold /\ Stage1Ran /\ s_s1.high = 0) => s_hyde = 1
         /\ (~s_in.apply_threshold /\ Stage1Ran) => (s_hyde = 1 <=> s_s1.count = 0)
         /\ (s_ret = <<>> /\ s_hyde = 0)
              => (~s_in.clients_ok \/ s_in.text_empty \/ s_in.top_k = 0)

\* Stage 1 found candidates, all below the initial threshold; Stage 2 ran
\* once and the call returned the empty list
C4_Witness ==
    /\ s_pc = "done" /\ s_in.apply_threshold
    /\ s_s1.state = "ranked" /\ s_s1.count > 0 /\ s_s1.high = 0
    /\ s_hyde = 1 /\ s_ret = <<>> /\ s_in.top_k >= 1

\* ------------------------------------------------ claims on resolution runs
\* the run is between two steps of a non-empty plan, or over
BetweenSteps == plan.state = "steps" /\ o_pc \in {"loop", "finally", "done", "aborted"}

\* the positions of the trace recorded with status error
ErrorRecords == { k \in DOMAIN trace : trace[k].status = "error" }

\* the steps whose parameters were extracted or whose script was dispatched
WorkedSteps == { log[e].step : e \in { d \in DOMAIN log : log[d].op \in {"extract", "execute"} } }

\* C1: halt-on-error -- once a step is recorded with status error, no later
\* plan step has its parameters extracted or its script executed, and no later
\* step is in the trace with a status other than skipped
C1_HaltOnError ==
    \A k \in ErrorRecords :
      /\ \A j \in DOMAIN trace : j > k => trace[j].status = "skipped"
      /\ \A i \in WorkedSteps : i <= k

\* the monitor ran a two-step plan whose first step failed: the second step
\* is in the trace as skipped and nothing was extracted or executed for it
C1_Witness ==
    /\ mode = "monitor" /\ o_pc = "done" /\ Len(trace) = 2
    /\ trace[1].status = "error" /\ trace[2].status = "skipped"
    /\ trace[2].script_name # NoName
    /\ 1 \in WorkedSteps

\* the list handed to update_incident_history: ResolverAgent.run passes the
\* frontend form of its trace, the monitor its executed_scripts
Persistable(t) == IF mode = "agent" THEN TransformTrace(available, t) ELSE t

\* the persisted trace holds exactly the step records produced so far
Durable == hist.row /\ ~hist.null_trace /\ hist.trace = Persistable(trace)

LastCallRaised ==
    /\ log # <<>>
    /\ log[Len(log)].op \in {"find", "plan", "extract", "persist"}
    /\ ~log[Len(log)].ok

\* C5: ResolverAgent.run never lets an exception escape -- an exception raised
\* during the run (by retrieval, planning, parameter extraction or persistence;
\* the execution agent turns exceptions of a script run into error results)
\* yields a returned result with status Error, the plan obtained so far and
\* the step records accumulated before it; every run returns a status that is
\* one of Resolved, Error, SOP not found
C5_NoEscape ==
    /\ o_pc = "done" => status \in {"Resolved", "Error", "SOP not found"}
    /\ LastCallRaised <=> caught
    /\ caught =>
         /\ o_pc = "done" /\ status = "Error"
         /\ log[Len(log)].op = "find" => plan = NoPlan /\ trace = <<>>
         /\ log[Len(log)].op = "plan" => plan = NoPlan /\ trace = <<>>
         /\ log[Len(log)].op = "extract" =>
              /\ plan.state = "steps"
              /\ Len(trace) = log[Len(log)].step - 1
              /\ \A k \in DOMAIN trace : trace[k].step = k /\ trace[k].status # "error"
         /\ log[Len(log)].op = "persist" =>
              /\ plan.state = "steps"
              /\ Len(trace) = log[Len(log)].step
              /\ \A k \in DOMAIN trace : trace[k].step = k
              /\ \A k \in 1 .. (Len(trace) - 1) : trace[k].status # "error"

\* parameter extraction raised at the second step: the run returned Error with
\* the plan and the record of the first step
C5_Witness ==
    /\ mode = "agent" /\ caught /\ o_pc = "done" /\ status = "Error"
    /\ plan.state = "steps" /\ Len(trace) = 1 /\ trace[1].status = "success"
    /\ log[Len(log)] = Logged("extract", 2, FALSE)

\* retrieval returned an empty result
EmptyRetrieval == \E e \in DOMAIN log : log[e].op = "find_empty"

Finished == o_pc = "done" /\ plan.state = "steps"

\* the loop reached the end of the plan
LoopCompleted == ~caught /\ Len(trace) = Len(plan.steps)

ScriptOfRecord(k) ==
    IF mode = "agent"
      THEN (IF plan.steps[k] = NoTool THEN <<>> ELSE FindScript(available, plan.steps[k]))
      ELSE FindScript(available, resolved[k].script_name)

\* the extracted parameters kept in record k
ExtractedOfRecord(k) ==
    IF mode = "agent" THEN trace[k].params ELSE trace[k].extracted_parameters

\* record k is of a step whose script declares a required parameter without
\* default for which the extractor gave nothing or null
HasMissingParam(k) ==
    /\ ScriptOfRecord(k) # <<>>
    /\ LET ps == ScriptOfRecord(k)[1].params
           ex == ExtractedOfRecord(k)
       IN  /\ ps # <<>> /\ DOMAIN ex = DOMAIN ps
           /\ \E q \in DOMAIN ps :
                /\ ps[q].required
                /\ ex[q] \in {"absent", Null}
                /\ ps[q].default_value = Null

NoResolvableTool(k) ==
    \/ plan.steps[k] = NoTool
    \/ mode = "agent" /\ FindScript(available, plan.steps[k]) = <<>>
    \/ mode = "monitor" /\ resolved[k].script_name = NoName

LookupFails(k) ==
    /\ plan.steps[k] # NoTool
    /\ \/ FindScript(available, plan.steps[k]) = <<>>
       \/ FindScript(available, plan.steps[k])[1].script_type = Null

EmptyPlan == plan.state = "empty"

Extends(t1, t2) ==
    /\ Len(t2) >= Len(t1)
    /\ SubSeq(t2, 1, Len(t1)) = t1

\* the step numbers of t increase strictly and each is the 1-based position
\* in the plan of the step the record is about
NumberedByPlan(t) ==
    \A k \in DOMAIN t :
      /\ t[k].step \in DOMAIN plan.steps
      /\ t[k].script = plan.steps[t[k].step]
      /\ k > 1 => t[k - 1].step < t[k].step

\* the executions of the run, in the order they were made
Executions == SelectSeq(log, LAMBDA e : e.op = "execute")

\* scripts are executed in plan order
ExecutedInPlanOrder ==
    \A k \in DOMAIN Executions :
      /\ Executions[k].step \in DOMAIN plan.steps
      /\ k > 1 => Executions[k - 1].step < Executions[k].step

\* C12: the trace of a run of the agent is append-only and ordered -- every
\* step of the run leaves the trace alone or adds records at its end, no
\* record is changed or removed, the step numbers increase strictly and each
\* equals the 1-based position of its step in the plan, and scripts are
\* executed in plan order
C12_TraceAppendOnly ==
    [][mode = "agent" =>
         /\ Extends(trace, trace')
         /\ Len(trace') <= Len(trace) + 1
         /\ NumberedByPlan(trace)'
         /\ ExecutedInPlanOrder']_vars

\* the agent executed both steps of a two-step plan and recorded them
C12_Witness ==
    /\ mode = "agent" /\ Len(trace) = 2 /\ Len(Executions) = 2
    /\ trace[1].step = 1 /\ trace[2].step = 2

\* the scores of a list of candidates
Scores(s) == { s[i].score : i \in DOMAIN s }

\* C13: every score produced by rerank_with_feedback lies in [0, 1], for
\* every raw similarity and every value of the feedback counters, whether or
\* not a feedback summary exists
C13_AsStated ==
    f_pc = "done" => \A x \in Scores(f_out.reranked) : 0 <= x /\ x <= ONE

\* C14: threshold monotonicity -- for the same index answer, feedback summary
\* and apply_threshold, if t1 <= t2 then Stage 1 returns at most as many
\* results under threshold t2 as under threshold t1
C14_ThresholdMonotone ==
    (f_pc = "done" /\ f_in.t1 <= f_in.t2) =>
      Len(f_out.with_t2) <= Len(f_out.with_t1)

\* raising the threshold made Stage 1 return strictly fewer results, and
\* still some
C14_Witness ==
    /\ f_pc = "done" /\ f_in.t1 < f_in.t2 /\ f_in.apply_threshold
    /\ f_in.fb.present
    /\ Len(f_out.with_t1) = 2 /\ Len(f_out.with_t2) = 1

\* Stage 2 ran and found nothing: the hypothetical document was empty, or
\* generation or the index query raised, or no re-ranked candidate reaches
\* the HyDE threshold
Stage2FoundNothing ==
    \/ s_s2.state \in {"nodoc", "raised"}
    \/ s_s2.state = "ranked" /\ s_s2.high = 0

\* C15 as stated: whenever Stage 2 finds no candidate at or above the HyDE
\* threshold, or generation returns empty text or raises, or the Stage 2
\* query raises, the call returns an empty list and raises nothing
C15_AsStated ==
    Stage2FoundNothing =>
      /\ s_pc \in {"finish", "done"}
      /\ s_pc = "done" => s_ret = <<>>

\* C15 (amended): the same, where "no candidate at or above the HyDE
\* threshold" is taken with apply_threshold true or with no candidate at all
C15_NothingFound ==
    (/\ Stage2FoundNothing
     /\ s_s2.state = "ranked" => (s_in.apply_threshold \/ s_s2.count = 0)) =>
      /\ s_pc \in {"finish", "done"}
      /\ s_pc = "done" => s_ret = <<>>

\* Stage 2 ranked candidates, all below the HyDE threshold, and the call
\* returned the empty list
C15_Witness ==
    /\ s_pc = "done" /\ s_in.apply_threshold /\ s_in.top_k >= 1
    /\ s_s2.state = "ranked" /\ s_s2.count > 0 /\ s_s2.high = 0
    /\ s_ret = <<>>

\* the registry positions whose similarity to the tool is at least p/q
AtLeast(p, q) ==
    { k \in DOMAIN f_in.scripts :
        Similarity(f_in.tool, f_in.scripts[k].name).num * q
          >= p * Similarity(f_in.tool, f_in.scripts[k].name).den }

\* the registry positions with the best similarity to the tool
Best ==
    { k \in DOMAIN f_in.scripts :
        \A j \in DOMAIN f_in.scripts :
          Similarity(f_in.tool, f_in.scripts[j].name).num
              * Similarity(f_in.tool, f_in.scripts[k].name).den
            <= Similarity(f_in.tool, f_in.scripts[k].name).num
                 * Similarity(f_in.tool, f_in.scripts[j].name).den }

\* the step is bound to the script at registry position k
BoundTo(k) ==
    /\ f_out.entry.script_id = f_in.scripts[k].id
    /\ f_out.entry.script_name = f_in.scripts[k].name

Unbound(id) == f_out.entry.script_id = id /\ f_out.entry.script_name = NoName

\* C16: a non-empty tool name is bound to a script only if the best
\* similarity over the registry is at least 0.5; otherwise, and for every tool
\* name when the registry is empty, script_id is 'Not Found' and script_name
\* is null; a step with no tool name is left unbound without any matching
C16_AcceptanceThreshold ==
    f_pc = "done" =>
      IF f_in.tool = NoTool
        THEN Unbound(0) /\ f_out.compared = 0
      ELSE IF AtLeast(1, 2) # {}
        THEN \E k \in AtLeast(1, 2) : BoundTo(k)
      ELSE Unbound(0 - 1)

\* a script with similarity exactly 1/2 was bound
C16_Witness ==
    /\ f_pc = "done" /\ f_in.tool # NoTool /\ f_in.scripts # <<>>
    /\ AtLeast(1, 2) # {} /\ AtLeast(51, 100) = {}
    /\ \E k \in DOMAIN f_in.scripts : BoundTo(k)

\* the registry positions whose lower-cased name contains the lower-cased tool
Containing ==
    { k \in DOMAIN f_in.scripts :
        IsSubstring(Lower(f_in.tool), Lower(f_in.scripts[k].name)) }

\* twice the matched characters of tool and name k, and their total length
\* (SequenceMatcher's ratio is the first over the second)
Matched2(k) == 2 * MatchCount(Lower(f_in.tool), Lower(f_in.scripts[k].name))
Total(k) == Len(f_in.tool) + Len(f_in.scripts[k].name)

\* C17: if the lower-cased tool name is a literal substring of some script's
\* lower-cased name, the step is bound to a script of which the tool is a
\* substring, whatever the ratios of the other scripts and the registry order
C17_SubstringWins ==
    (f_pc = "done" /\ f_in.tool # NoTool /\ Containing # {}) =>
      \E k \in Containing : BoundTo(k)

\* a script containing the tool was bound although an earlier script that
\* does not contain it has the higher ratio
C17_Witness ==
    /\ f_pc = "done" /\ f_in.tool # NoTool
    /\ \E k \in Containing, j \in DOMAIN f_in.scripts \ Containing :
         /\ j < k /\ BoundTo(k)
         /\ Matched2(j) * Total(k) > Matched2(k) * Total(j)

\* C18: the output of resolve_scripts is a function of the plan and the
\* registry (contents and order): a tool with an acceptable match is bound to
\* the first script in registry order among those with the best similarity
C18_FirstBestWins ==
    (f_pc = "done" /\ f_in.tool # NoTool /\ AtLeast(1, 2) # {}) =>
      /\ Best # {}
      /\ BoundTo(CHOOSE k \in Best : \A j \in Best : k <= j)

\* two scripts tie for the best similarity and the earlier one was bound
C18_Witness ==
    /\ f_pc = "done" /\ f_in.tool # NoTool /\ AtLeast(1, 2) # {}
    /\ Cardinality(Best) >= 2
    /\ \E k \in Best : BoundTo(k) /\ \A j \in Best : k <= j

\* C19: ExecutionAgent.run with a tool name that is not in the tool belt
\* returns status error and invokes no tool function: no script lookup, no
\* temporary file, no subprocess
C19_UnknownTool ==
    (mode = "exec" /\ e_in.tool_name \notin ToolBelt) =>
      /\ e_log = <<>> /\ ~e_tmp
      /\ e_pc \in {"ready", "done"}
      /\ e_pc = "done" => e_res = Result("error", "tool_not_found")

\* run returned for a tool name that is not in the belt
C19_Witness ==
    /\ mode = "exec" /\ e_pc = "done" /\ e_in.tool_name \notin ToolBelt
    /\ e_res.status = "error"

\* some call of the run raised
SomeCallRaised == \E k \in DOMAIN e_log : ~e_log[k].ok

\* C20: ExecutionAgent.run never propagates an exception -- any exception
\* raised while looking the script up, preparing it or running it is
\* converted to a result with status error, and the result always has the
\* shape {status, output} with status success or error
C20_NoPropagation ==
    mode = "exec" =>
      /\ e_pc # "propagated"
      /\ e_pc = "done" =>
           /\ DOMAIN e_res = {"status", "output"}
           /\ e_res.status \in {"success", "error"}
           /\ SomeCallRaised => e_res.status = "error"

\* the script ran with exit status 0, removing the temporary file raised, and
\* run returned status error
C20_Witness ==
    /\ mode = "exec" /\ e_pc = "done" /\ e_res.status = "error"
    /\ \E k \in DOMAIN e_log : e_log[k].op = "subprocess" /\ e_log[k].ok
    /\ e_log[Len(e_log)] = Called("unlink", FALSE, 0)

\* the removal of the temporary file failed in this call
UnlinkFailed == \E k \in DOMAIN e_log : e_log[k].op = "unlink" /\ ~e_log[k].ok

C22_AsStated ==
    mode = "registry" =>
      \A r1, r2 \in r_rows : r1.name = r2.name => r1.id = r2.id

\* the per-incident code is over for the incident at hand
IncidentOver == o_pc \in {"done", "aborted"}

\* C23: in the periodic monitor any exception raised while resolving an
\* incident is caught, that incident ends with status Error, and the monitor
\* loop does not terminate: after a failure it sleeps and polls again
C23_AsStated ==
    [][mode = "monitor" =>
         /\ (caught' /\ IncidentOver') => status' = "Error"
         /\ o_pc = "aborted" => o_pc' = "sleeping"
         /\ o_pc = "sleeping" => o_pc' = "next"]_vars

\* the script was started as a subprocess
Invoked == \E k \in DOMAIN e_log : e_log[k].op = "subprocess"

\* C24: whenever a step passes the missing-parameter check because a
\* declared parameter has a default (the extraction supplied no value for it),
\* the script is invoked with the declared default as the argument for that
\* parameter
C24_AsStated ==
    (mode = "exec" /\ Invoked /\ MissingParams(e_in.params, e_in.parameters) = {}) =>
      \A k \in DOMAIN e_in.params :
        (/\ e_in.params[k].required
         /\ Falsy(e_in.parameters[k])
         /\ e_in.params[k].default_value # Null) =>
          \E i \in DOMAIN e_cmd :
            e_cmd[i] = [param |-> k, value |-> e_in.params[k].default_value]

\* the position of candidate id in a list of candidates
PositionOf(list, id) == CHOOSE k \in DOMAIN list : list[k].id = id

\* the change the three rules make to the score of a candidate with the
\* counters c: +0.2, -0.15 or none
RuleDelta(c) ==
    IF c.correct > c.incorrect + 1 THEN 20000
    ELSE IF c.incorrect > c.correct + 1 THEN 0 - 15000
    ELSE 0

\* a candidate with correct_agent = 5 and incorrect_recommendation = 0
Confirmed(id) == f_in.fb.counts[id] = [correct |-> 5, incorrect |-> 0]

\* the score of the candidate before and after re-ranking
RawOf(id) == f_in.raw[PositionOf(f_in.raw, id)].score
RerankedOf(id) == f_out[PositionOf(f_out, id)].score

\* re-ranking ran with a feedback summary on at least one candidate
Reranked == mode = "rerank" /\ f_pc = "done" /\ f_in.fb.present /\ f_in.raw # <<>>

Candidates == { f_in.raw[k].id : k \in DOMAIN f_in.raw }

\* C25 as stated: each score changes by exactly one of the three rules from
\* the candidate's own counters, and a candidate with correct_agent = 5 and
\* incorrect_recommendation = 0 ends with a score above its raw score and
\* ahead of every unboosted candidate whose raw score is above its own by
\* less than the boost
C25_AsStated ==
    Reranked =>
      /\ { f_out[k].id : k \in DOMAIN f_out } = Candidates /\ Len(f_out) = Len(f_in.raw)
      /\ \A p \in Candidates :
           RerankedOf(p) = Round4(Max(0, Min(ONE, RawOf(p) + RuleDelta(f_in.fb.counts[p]))))
      /\ \A p \in Candidates : Confirmed(p) =>
           /\ RerankedOf(p) > RawOf(p)
           /\ \A q \in Candidates \ {p} :
                (/\ RuleDelta(f_in.fb.counts[q]) = 0
                 /\ RawOf(q) > RawOf(p) /\ RawOf(q) < RawOf(p) + 20000) =>
                  PositionOf(f_out, p) < PositionOf(f_out, q)

\* C25 (amended): the same, where the confirmed candidate's score is above
\* its raw score when that is below 1.0 (never below it otherwise), and the
\* candidate is ahead of every unboosted candidate whose re-ranked score is
\* below its own, as those with a raw score above its own by less than the
\* boost are unless clipping at 1.0 or rounding makes the two scores equal
C25_BoostAndPenalty ==
    Reranked =>
      /\ { f_out[k].id : k \in DOMAIN f_out } = Candidates /\ Len(f_out) = Len(f_in.raw)
      /\ \A p \in Candidates :
           RerankedOf(p) = Round4(Max(0, Min(ONE, RawOf(p) + RuleDelta(f_in.fb.counts[p]))))
      /\ \A p \in Candidates : Confirmed(p) =>
           /\ RawOf(p) < ONE => RerankedOf(p) > RawOf(p)
           /\ RawOf(p) <= ONE => RerankedOf(p) >= RawOf(p)
           /\ \A q \in Candidates \ {p} :
                (/\ RuleDelta(f_in.fb.counts[q]) = 0
                 /\ RawOf(q) > RawOf(p) /\ RawOf(q) < RawOf(p) + 20000) =>
                  /\ RerankedOf(q) <= RerankedOf(p)
                  /\ RerankedOf(q) < RerankedOf(p) =>
                       PositionOf(f_out, p) < PositionOf(f_out, q)

\* a confirmed candidate overtook an unboosted one that the index ranked
\* higher
C25_Witness ==
    /\ Reranked
    /\ \E p, q \in Candidates :
         /\ Confirmed(p) /\ RuleDelta(f_in.fb.counts[q]) = 0
         /\ PositionOf(f_in.raw, q) < PositionOf(f_in.raw, p)
         /\ RawOf(q) > RawOf(p)
         /\ PositionOf(f_out, p) < PositionOf(f_out, q)

\* C26: the list search_sop_by_query returns has at most top_k entries and
\* is in order of non-increasing final score, whichever stage produced it
\* and with or without a feedback summary
C26_TopKOrdered ==
    (mode = "search" /\ s_pc = "done") =>
      /\ Len(s_ret) <= s_in.top_k
      /\ \A i, j \in DOMAIN s_ret : i < j => s_ret[i].score >= s_ret[j].score

\* the slice dropped a candidate: the list returned is shorter than the
\* final results and keeps the best of them
C26_Witness ==
    /\ mode = "search" /\ s_pc = "done"
    /\ s_in.top_k >= 1 /\ Len(s_ret) = s_in.top_k /\ Len(s_final) > s_in.top_k
    /\ s_ret[1].score > s_final[Len(s_final)].score

\* a text without its letter case and without the whitespace around it
Folded(t) ==
    LET u == IF t = <<"None">> THEN <<>> ELSE t
        first == CHOOSE k \in 1 .. Len(u) + 1 :
                   /\ \A j \in 1 .. k - 1 : u[j] = " "
                   /\ k <= Len(u) => u[k] # " "
        last == CHOOSE k \in 0 .. Len(u) :
                   /\ \A j \in k + 1 .. Len(u) : u[j] = " "
                   /\ k >= 1 => u[k] # " "
    IN  [k \in 1 .. (IF last >= first THEN last - first + 1 ELSE 0) |->
           IF u[first + k - 1] = "A" THEN "a" ELSE u[first + k - 1]]

\* a text without its letter case and without the whitespace before it
FoldedLeft(t) ==
    LET u == IF t = <<"None">> THEN <<>> ELSE t
        first == CHOOSE k \in 1 .. Len(u) + 1 :
                   /\ \A j \in 1 .. k - 1 : u[j] = " "
                   /\ k <= Len(u) => u[k] # " "
    IN  [k \in 1 .. Len(u) - first + 1 |->
           IF u[first + k - 1] = "A" THEN "a" ELSE u[first + k - 1]]

\* a text without its letter case and without the whitespace after it
FoldedRight(t) ==
    LET u == IF t = <<"None">> THEN <<>> ELSE t
        last == CHOOSE k \in 0 .. Len(u) :
                   /\ \A j \in k + 1 .. Len(u) : u[j] = " "
                   /\ k >= 1 => u[k] # " "
    IN  [k \in 1 .. last |-> IF u[k] = "A" THEN "a" ELSE u[k]]

KeysTaken == mode = "key" /\ f_pc = "done"

\* C27 as stated: the key rerank_with_feedback reads is the key
\* add_retrieval_feedback wrote for the same short description and
\* description, also when the two differ in letter case and in the
\* whitespace around the short description and around the description
C27_AsStated ==
    (/\ KeysTaken
     /\ Folded(f_in.read.short) = Folded(f_in.written.short)
     /\ Folded(f_in.read.desc) = Folded(f_in.written.desc))
      => f_out.read = f_out.written

\* C27 (amended): the key read is the key written for the same short
\* description and description, also when the two differ in letter case, in
\* the whitespace before the short description and in the whitespace after
\* the description
C27_ConsistentKey ==
    (/\ KeysTaken
     /\ FoldedLeft(f_in.read.short) = FoldedLeft(f_in.written.short)
     /\ FoldedRight(f_in.read.desc) = FoldedRight(f_in.written.desc))
      => f_out.read = f_out.written

\* one key for two spellings of an incident that differ in letter case and
\* in the whitespace around the text
C27_Witness ==
    /\ KeysTaken
    /\ f_in.written = [short |-> <<"a">>, desc |-> <<"A">>]
    /\ f_in.read = [short |-> <<" ", "A">>, desc |-> <<"a", " ">>]
    /\ f_out.read = f_out.written

\* the submissions that have returned, of one type, and those of them that
\* named a candidate
Submitted(type) == { c \in Clients : b_sub[c].pc = "done" /\ b_sub[c].type = type }
Naming(type, a) == { c \in Submitted(type) : b_sub[c].named /\ b_sub[c].agent = a }
Applied(set) == { c \in set : b_sub[c].applied }

C29_AsStated ==
    [][mode = "feedback" =>
         /\ b_read' # b_read => b_store' = b_store
         /\ (\/ b_store'.correct_count > b_store.correct_count
             \/ b_store'.incorrect_count > b_store.incorrect_count
             \/ \E a \in AgentIds :
                  \/ b_store'.correct_agent[a] > b_store.correct_agent[a]
                  \/ b_store'.incorrect_recommendation[a]
                       > b_store.incorrect_recommendation[a])
            => \E c \in Clients : b_sub[c].pc = "update" /\ b_sub'[c].pc = "done"]_vars

\* C30: a failed embedding, vector-index or LLM call is retried a fixed
\* number of times with an exponentially growing delay, and is a hard
\* failure only once the last attempt has failed; the retry loop ends (the
\* LLM call after at most 5 attempts, with an empty response)
C30_AsStated ==
    mode = "retry" =>
      /\ f_out.attempts <= 5
      /\ \A i \in DOMAIN f_out.delays :
           i > 1 => f_out.delays[i] = 2 * f_out.delays[i - 1]
      /\ f_out.result \in {"empty", "raised", "stage_failed"} => f_out.attempts = 5
      /\ (f_in.call = "llm" /\ f_pc = "done" /\ f_out.result # "response")
           => f_out.result = "empty"
      /\ f_pc = "calling" => f_out.attempts < 5

\* a parameter extraction or a script execution is in the log
StepWork(l) == \E k \in DOMAIN l : l[k].op \in {"extract", "execute"}

CheckpointedStep ==
    mode \in {"agent", "monitor"} =>
      /\ (o_pc = "plan" /\ o_pc' = "loop") =>
           /\ plan'.state = "steps" /\ plan'.steps # <<>>
           /\ persist'.calls = 1 /\ persist'.step = 0
           /\ hist' = IF persist'.ok
                        THEN [row |-> TRUE, plan |-> plan', null_trace |-> FALSE,
                              trace |-> <<>>]
                        ELSE hist
           /\ persist'.ok => hist.row
      /\ (StepWork(log') /\ ~StepWork(log)) =>
           (o_pc = "loop" /\ plan.state = "steps" /\ persist.calls = 1)

StepScript(k) == IF mode = "agent" THEN trace[k].script ELSE trace[k].script_name
Succeeded == { k \in DOMAIN trace : trace[k].status = "success" }

\* the run is in its loop, where the parameter extraction of step idx is
\* given the context
InLoop == mode \in {"agent", "monitor"} /\ o_pc = "loop"

Checkpointing == mode = "history" /\ h_at.active /\ h_at'.calls = h_at.calls + 1

\* C33: a checkpoint adds no trace record and changes only the record of the
\* attempt under way: the records of other incidents and of earlier attempts
\* for the same incident number stay as they are
C33_AsStated ==
    [][Checkpointing =>
         /\ Len(h_rows') = Len(h_rows)
         /\ \A k \in DOMAIN h_rows :
              h_rows[k].attempt # h_at.id => h_rows'[k] = h_rows[k]]_vars

\* C34: after a script add, update or delete request that completed, the
\* collection holds an {id, name} point for exactly the registered scripts
C34_AsStated ==
    (mode = "index" /\ q_index.last = "ok") => q_index.points = r_rows

ScenarioB ==
    /\ mode = "resolve" /\ f_pc = "done"
    /\ f_in.tool = RestartTool
    /\ \E i \in DOMAIN f_in.scripts : f_in.scripts[i].name = RestartScript

\* Scenario B as the claim has it: the match scores 1.0
C36_AsStated ==
    ScenarioB =>
      /\ BestMatch(f_in.tool, f_in.scripts).score = [num |-> 1, den |-> 1]
      /\ f_out.entry.script_name = RestartScript

\* C36: in Scenario B the match scores 32/35 (the similarity ratio of the two
\* names, about 0.914, which is at least 0.5) and the step is resolved to the
\* script "restart_web_server"
C36_ScenarioB ==
    ScenarioB =>
      /\ BestMatch(f_in.tool, f_in.scripts).score = [num |-> 32, den |-> 35]
      /\ f_out.entry.script_name = RestartScript
      /\ \E i \in DOMAIN f_in.scripts :
           /\ f_in.scripts[i].name = RestartScript
           /\ f_out.entry.script_id = f_in.scripts[i].id

C36_Witness ==
    ScenarioB /\ Len(f_in.scripts) > 1 /\ f_out.entry.script_name = RestartScript

C38_AsStated ==
    mode = "cycles" =>
      \A i \in IncidentIds :
        m_loop.table[i] = "In Progress"
          => /\ i = m_loop.cur
             /\ m_loop.pc \in {"retrieve", "plan", "execute", "finally"}

\* C39: whatever failed while an incident was resolved or finalized, the
\* remaining incidents of the cycle are processed in the same cycle: the
\* monitor does not go to sleep with incidents of its batch left
C39_AsStated ==
    (mode = "cycles" /\ m_loop.pc = "sleeping") => m_loop.batch = <<>>

\* C40: the shell tool passes the arguments in declaration order with the
\* i-th argument the value of the i-th declared parameter
C40_AsStated ==
    mode = "exec" => \A i \in DOMAIN e_cmd : e_cmd[i].param = i

====
